---- MODULE Spec2Model ----
(***************************************************************************)
(* Protection-zone engine (APPCalculator) and legal-reserve allocator      *)
(* (ReservaLegalCalculator) of the AUTO CAR generator.                     *)
(*                                                                         *)
(* Geometry is modelled on a cross-section of the terrain: the world is a  *)
(* strip of fixed depth, and a geometry is a finite set of closed          *)
(* intervals <<lo, hi>> (metres along the section, lo <= hi).  An interval *)
(* with lo < hi is a polygon part (area = length * StripDepth); an         *)
(* interval with lo = hi is a lower-dimensional part (a line across the    *)
(* strip, or a point).  The set operations are those of closed point sets, *)
(* as computed by the geometry library the program calls.                  *)
(***************************************************************************)
EXTENDS Integers, Sequences, FiniteSets, TLC

VARIABLES
    bw,     \* calls of APPCalculator._get_buffer_by_width
    calc,   \* fields of the calculator object (perimeter, bioma, percent, ...)
    rl,     \* locals and result of ReservaLegalCalculator.suggest_location
    app,    \* locals and result of APPCalculator.calculate_all_apps
    shp,    \* the SICARShapefileBuilder object and its calls of add_layer
    val,    \* locals and result of GeometryValidator.validate
    dup     \* locals and result of NascenteIdentifier._remove_nearby_duplicates

vars == <<bw, calc, rl, app, shp, val, dup>>

\* Python's None, and a present value: an optional value is a sequence of
\* length at most one
None == <<>>
Some(x) == <<x>>

\* a component that takes no part in the specification at hand
Idle == [pc |-> "idle"]

Min(a, b) == IF a <= b THEN a ELSE b
Max(a, b) == IF a >= b THEN a ELSE b

(***************************************************************************)
(* Python floats (IEEE-754 binary64), as far as the allocator computes     *)
(* with them: finite values >= 0.  A float is the exact value m * 2^e, m   *)
(* a natural number of at most 53 bits written as a sequence of limbs of   *)
(* 15 bits, least significant first, and odd (m = <<>>, e = 0 for 0.0).    *)
(* Every operation computes the exact result and rounds it to the nearest  *)
(* float, ties to the even mantissa.                                       *)
(*   float64("float", n, 0)     float(n), n a natural number               *)
(*   float64("truediv", x, d)   x / d, d an integer in 1..32767            *)
(*   float64("mul", x, y)       x * y                                      *)
(*   float64("sub", x, y)       x - y, x >= y                              *)
(*   float64("ge", x, y)        x >= y                                     *)
(*   float64("round", x, n)     round(x, n) in units of 10^-n, n in 0..4   *)
(***************************************************************************)
float64(op, x, y) ==
    LET Base == 32768
        limb(a, i) == IF i \in 1..Len(a) THEN a[i] ELSE 0
        RECURSIVE trim(_)
        trim(a) == IF a # <<>> /\ a[Len(a)] = 0
                   THEN trim(SubSeq(a, 1, Len(a) - 1)) ELSE a
        RECURSIVE of_int(_)
        of_int(n) == IF n = 0 THEN <<>> ELSE <<n % Base>> \o of_int(n \div Base)
        RECURSIVE to_int(_)
        to_int(a) == IF a = <<>> THEN 0 ELSE a[1] + Base * to_int(Tail(a))
        RECURSIVE add(_, _, _, _)
        add(a, b, i, carry) ==
            IF i > Max(Len(a), Len(b)) THEN (IF carry = 0 THEN <<>> ELSE <<carry>>)
            ELSE LET s == limb(a, i) + limb(b, i) + carry
                 IN  <<s % Base>> \o add(a, b, i + 1, s \div Base)
        RECURSIVE subtract(_, _, _, _)
        subtract(a, b, i, borrow) ==
            IF i > Len(a) THEN <<>>
            ELSE LET d == limb(a, i) - limb(b, i) - borrow
                 IN  <<(d + Base) % Base>>
                     \o subtract(a, b, i + 1, IF d < 0 THEN 1 ELSE 0)
        RECURSIVE times(_, _, _, _)
        times(a, c, i, carry) ==
            IF i > Len(a) THEN (IF carry = 0 THEN <<>> ELSE <<carry>>)
            ELSE LET s == a[i] * c + carry
                 IN  <<s % Base>> \o times(a, c, i + 1, s \div Base)
        RECURSIVE product(_, _)
        product(a, b) ==
            IF b = <<>> THEN <<>>
            ELSE add(times(a, b[1], 1, 0), <<0>> \o product(a, Tail(b)), 1, 0)
        \* <<a \div d, a % d>>, 1 <= d < Base
        RECURSIVE divmod(_, _, _, _)
        divmod(a, d, i, r) ==
            IF i = 0 THEN <<<<>>, r>>
            ELSE LET cur == r * Base + a[i]
                     rest == divmod(a, d, i - 1, cur % d)
                 IN  <<Append(rest[1], cur \div d), rest[2]>>
        bits(a) == 15 * (Len(a) - 1)
                   + CHOOSE k \in 1..15 : 2 ^ (k - 1) <= a[Len(a)] /\ a[Len(a)] < 2 ^ k
        zeros(k) == [i \in 1..k |-> 0]
        \* a * 2^s
        shl(a, s) == trim(zeros(s \div 15) \o times(a, 2 ^ (s % 15), 1, 0))
        \* <<a \div 2^s, a % 2^s # 0>>
        shr(a, s) ==
            LET k == Min(s \div 15, Len(a))
                q == divmod(SubSeq(a, k + 1, Len(a)), 2 ^ (s % 15), Len(a) - k, 0)
            IN  <<trim(q[1]), q[2] # 0 \/ \E i \in 1..k : a[i] # 0>>
        odd(a) == a # <<>> /\ a[1] % 2 = 1
        geq(a, b) ==
            IF Len(a) # Len(b) THEN Len(a) > Len(b)
            ELSE LET differ == { i \in 1..Len(a) : a[i] # b[i] }
                 IN  differ = {} \/ LET i == CHOOSE j \in differ : \A k \in differ : k <= j
                                    IN  a[i] > b[i]
        RECURSIVE canonical(_, _)
        canonical(m, e) ==
            IF m = <<>> THEN [m |-> <<>>, e |-> 0]
            ELSE IF m[1] = 0 THEN canonical(Tail(m), e + 15)
            ELSE IF m[1] % 2 = 0 THEN canonical(shr(m, 1)[1], e + 1)
            ELSE [m |-> m, e |-> e]
        \* n \div 2^s rounded to the nearest, ties to even; inexact: n itself
        \* stands for a value slightly above n
        nearest(n, s, inexact) ==
            LET h == shr(n, s - 1)
                q == shr(h[1], 1)[1]
            IN  IF odd(h[1]) /\ (inexact \/ h[2] \/ odd(q)) THEN add(q, <<1>>, 1, 0) ELSE q
        \* the float nearest to n * 2^e
        round(n, e, inexact) ==
            IF n = <<>> THEN canonical(n, e)
            ELSE IF bits(n) <= 53 THEN canonical(n, e)
            ELSE canonical(nearest(n, bits(n) - 53, inexact), e + bits(n) - 53)
        low == IF op \in {"sub", "ge"} THEN Min(x.e, y.e) ELSE 0
    IN  CASE op = "float" -> canonical(of_int(x), 0)
          [] op = "truediv" ->
               LET q == divmod(zeros(5) \o x.m, y, Len(x.m) + 5, 0)
               IN  round(trim(q[1]), x.e - 75, q[2] # 0)
          [] op = "mul" -> round(trim(product(x.m, y.m)), x.e + y.e, FALSE)
          [] op = "sub" ->
               round(trim(subtract(shl(x.m, x.e - low), shl(y.m, y.e - low), 1, 0)),
                     low, FALSE)
          [] op = "ge" -> geq(shl(x.m, x.e - low), shl(y.m, y.e - low))
          [] op = "round" ->
               LET n == times(x.m, 10 ^ y, 1, 0)
               IN  IF x.e >= 0 THEN to_int(shl(n, x.e))
                   ELSE to_int(nearest(n, 0 - x.e, FALSE))

\* float(n)
Float(n) == float64("float", n, 0)

(***************************************************************************)
(* Floating-point widths.  A width is <<"fin", v>> with v in hundredths of *)
(* a metre, <<"inf", 0>> or <<"nan", 0>>.                                  *)
(***************************************************************************)
CM == 100

Fin(metres) == <<"fin", metres * CM>>
Inf == <<"inf", 0>>
NaN == <<"nan", 0>>

\* a <= b on floats: false whenever a NaN is involved
FLeq(a, b) ==
    IF a[1] = "nan" \/ b[1] = "nan" THEN FALSE
    ELSE IF b[1] = "inf" THEN TRUE
    ELSE IF a[1] = "inf" THEN FALSE
    ELSE a[2] <= b[2]

\* a < b on floats
FLt(a, b) == FLeq(a, b) /\ a # b

(***************************************************************************)
(* Geometry library (shapely), on the cross-section.                       *)
(***************************************************************************)
\* area of one hectare, in square metres
M2_PER_HA == 10000

\* depth of the strip: 10 m along the section are one hectare
StripDepth == M2_PER_HA \div 10

EmptyGeom == {}

Interval(lo, hi) == { <<lo, hi>> }

IsAreal(part) == part[1] < part[2]

\* geometry.is_empty
is_empty(g) == g = {}

\* the parts of g, overlapping or touching intervals merged
Norm(g) ==
    LET starts == { i[1] : i \in { k \in g :
                        ~ \E j \in g : j[1] < k[1] /\ k[1] <= j[2] } }
        ends   == { i[2] : i \in { k \in g :
                        ~ \E j \in g : j[1] <= k[2] /\ k[2] < j[2] } }
    IN  { <<l, CHOOSE h \in ends : h >= l /\ \A e \in ends : e >= l => h <= e>> :
            l \in starts }

\* a.intersection(b)
intersection(a, b) ==
    Norm({ <<Max(x[1], y[1]), Min(x[2], y[2])>> :
             <<x, y>> \in { q \in a \X b : Max(q[1][1], q[2][1]) <= Min(q[1][2], q[2][2]) } })

\* unary_union of a collection of geometries
unary_union(geoms) == Norm(UNION geoms)

\* a.difference(b): the closure of a minus b; a polygon part is only cut by
\* the polygon parts of b, a lower-dimensional part is dropped when b covers it
difference(a, b) ==
    LET bp == { y \in b : IsAreal(y) }
        cut(x) ==
            LET from == { s \in {x[1]} \cup { y[2] : y \in bp } :
                            /\ x[1] <= s /\ s < x[2]
                            /\ ~ \E y \in bp : y[1] <= s /\ s < y[2] }
                upto(s) == LET stops == {x[2]} \cup { y[1] : y \in { z \in bp : z[1] > s } }
                           IN  CHOOSE t \in stops : \A u \in stops : t <= u
            IN  { <<s, upto(s)>> : s \in from }
        keep(x) == IF IsAreal(x) THEN cut(x)
                   ELSE IF \E y \in b : y[1] <= x[1] /\ x[1] <= y[2] THEN {} ELSE {x}
    IN  Norm(UNION { keep(x) : x \in a })

\* g.buffer(d), d > 0
buffer(g, d) == Norm({ <<x[1] - d, x[2] + d>> : x \in g })

RECURSIVE Length(_)
Length(g) ==
    IF g = {} THEN 0
    ELSE LET x == CHOOSE y \in g : TRUE
         IN  (x[2] - x[1]) + Length(g \ {x})

\* g.area, in square metres
area(g) == Length(g) * StripDepth

\* a.distance(b), both non-empty
distance(a, b) ==
    LET gaps == { Max(0, Max(y[1] - x[2], x[1] - y[2])) : <<x, y>> \in a \X b }
    IN  CHOOSE d \in gaps : \A e \in gaps : d <= e

\* isinstance(g, MultiPolygon): several parts, all of them polygons
IsMultiPolygon(g) == Cardinality(g) >= 2 /\ \A x \in g : IsAreal(x)

\* the parts max(g.geoms, key=area) can return: a part of largest area (the
\* order of the parts of an overlay result is the library's)
LargestParts(g) == { x \in g : \A y \in g : y[2] - y[1] <= x[2] - x[1] }

\* a part of smallest area
SmallestParts(g) == { x \in g : \A y \in g : y[2] - y[1] >= x[2] - x[1] }

(***************************************************************************)
(* Projection between the geographic frame (EPSG:4326) and the metric      *)
(* frame (EPSG:31983): on the section, the two frames differ by an offset. *)
(***************************************************************************)
FrameShift == 7

\* gdf.to_crs(UTM_CRS_SP)
to_utm(g) == { <<x[1] + FrameShift, x[2] + FrameShift>> : x \in g }

\* gdf.to_crs(DEFAULT_CRS)
to_wgs84(g) == { <<x[1] - FrameShift, x[2] - FrameShift>> : x \in g }

(***************************************************************************)
(* config.py                                                               *)
(***************************************************************************)
APP_MARGEM ==
    { <<Fin(10), 30>>, <<Fin(50), 50>>, <<Fin(200), 100>>,
      <<Fin(600), 200>>, <<Inf, 500>> }

APP_NASCENTE_RAIO_M == 50
APP_LAGO_PEQUENO_M == 50
APP_LAGO_GRANDE_M == 100

\* the literals 0.20, 0.20 and 0.80: the floats nearest to 20/100 and 80/100
RESERVA_LEGAL_PERCENT ==
    [b \in {"MATA_ATLANTICA", "CERRADO", "AMAZONIA"} |->
        float64("truediv", Float(IF b = "AMAZONIA" THEN 80 ELSE 20), 100)]

\* sorted(d.items()): the items in increasing key order
RECURSIVE sorted(_)
sorted(items) ==
    IF items = {} THEN <<>>
    ELSE LET first == CHOOSE i \in items : \A j \in items : FLeq(i[1], j[1])
         IN  <<first>> \o sorted(items \ {first})

\* the items in decreasing key order
RECURSIVE sorted_reverse(_)
sorted_reverse(items) ==
    IF items = {} THEN <<>>
    ELSE LET first == CHOOSE i \in items : \A j \in items : FLeq(j[1], i[1])
         IN  <<first>> \o sorted_reverse(items \ {first})

(***************************************************************************)
(* APPCalculator._get_buffer_by_width                                      *)
(***************************************************************************)
RECURSIVE scan_leq(_, _, _)
scan_leq(items, i, width_m) ==
    IF i > Len(items) THEN 500
    ELSE IF FLeq(width_m, items[i][1]) THEN items[i][2]
    ELSE scan_leq(items, i + 1, width_m)

RECURSIVE scan_lt(_, _, _)
scan_lt(items, i, width_m) ==
    IF i > Len(items) THEN 500
    ELSE IF FLt(width_m, items[i][1]) THEN items[i][2]
    ELSE scan_lt(items, i + 1, width_m)

\* mutant: strict comparison with the table bound
get_buffer_by_width_lt(width_m) == scan_lt(sorted(APP_MARGEM), 1, width_m)

\* mutant: the table scanned from its largest bound
get_buffer_by_width_unsorted(width_m) ==
    scan_leq(sorted_reverse(APP_MARGEM), 1, width_m)

_get_buffer_by_width(width_m) == scan_leq(sorted(APP_MARGEM), 1, width_m)

(***************************************************************************)
(* The calculator object: ReservaLegalCalculator.__init__ and the cached   *)
(* property perimeter_utm.                                                 *)
(***************************************************************************)
\* mutant: no default for a biome missing from the table
percent_of_no_default(bioma) ==
    IF bioma \in DOMAIN RESERVA_LEGAL_PERCENT
    THEN RESERVA_LEGAL_PERCENT[bioma] ELSE Float(0)

\* RESERVA_LEGAL_PERCENT.get(bioma, 0.20)
percent_of(bioma) ==
    IF bioma \in DOMAIN RESERVA_LEGAL_PERCENT
    THEN RESERVA_LEGAL_PERCENT[bioma] ELSE float64("truediv", Float(20), 100)

RLCalculator(perimeter, bioma) ==
    [perimeter |-> perimeter, bioma |-> bioma, percent |-> percent_of(bioma),
     _perimeter_utm |-> None, projections |-> 0]

\* the value the property perimeter_utm returns for the object c
perimeter_utm(c) ==
    IF c._perimeter_utm = None THEN to_utm(c.perimeter) ELSE c._perimeter_utm[1]

\* mutant: the projection is made at every access and never stored
after_perimeter_utm_uncached(c) == [c EXCEPT !.projections = @ + 1]

\* the object c after an access to the property perimeter_utm
after_perimeter_utm(c) ==
    IF c._perimeter_utm = None
    THEN [c EXCEPT !._perimeter_utm = Some(to_utm(c.perimeter)),
                   !.projections = @ + 1]
    ELSE c

\* lines 50-56: total_area_ha = self.perimeter_utm.area / 10000 and
\* required_ha = total_area_ha * self.percent, in hectares
calculate_required_area(c) ==
    float64("mul", float64("truediv", Float(area(perimeter_utm(c))), 10000),
            c.percent)

(***************************************************************************)
(* GeoDataFrames: the column names, the sequence of rows (records) and the *)
(* index label of each row; a frame made from a list of rows has the       *)
(* default index 0, 1, ...  A parameter that may be None is an optional    *)
(* GeoDataFrame.                                                           *)
(***************************************************************************)
GeoDataFrame(columns, rows) ==
    [columns |-> columns, rows |-> rows, index |-> [i \in 1..Len(rows) |-> i - 1]]

\* gpd.GeoDataFrame(list of dicts): the columns are the keys of the dicts
FrameOfRows(rows) ==
    GeoDataFrame(UNION { DOMAIN rows[i] : i \in 1..Len(rows) }, rows)

\* gdf is not None and not gdf.empty
HasRows(gdf) == gdf # None /\ Len(gdf[1].rows) > 0

\* gdf.to_crs(UTM_CRS_SP).geometry
utm_geometries(gdf) ==
    { to_utm(gdf[1].rows[i].geometry) : i \in 1..Len(gdf[1].rows) }

(***************************************************************************)
(* ReservaLegalCalculator                                                  *)
(***************************************************************************)
\* mutant: the protection zones are not removed
available_areas_keep_app(c, app_gdf) == { perimeter_utm(c) }

\* mutant: the smallest part is kept
available_areas_smallest(c, app_gdf) ==
    IF HasRows(app_gdf)
    THEN LET app_union == unary_union(utm_geometries(app_gdf))
             disponivel == difference(perimeter_utm(c), app_union)
         IN  IF IsMultiPolygon(disponivel)
             THEN { {x} : x \in SmallestParts(disponivel) }
             ELSE { disponivel }
    ELSE { perimeter_utm(c) }

\* the results _calculate_available_area can return
_calculate_available_area(c, app_gdf) ==
    IF HasRows(app_gdf)
    THEN LET app_union == unary_union(utm_geometries(app_gdf))
             disponivel == difference(perimeter_utm(c), app_union)
         IN  IF IsMultiPolygon(disponivel)
             THEN { {x} : x \in LargestParts(disponivel) }
             ELSE { disponivel }
    ELSE { perimeter_utm(c) }

\* mutant: a single polygon larger than the target is cut down to the target
extract_area_cropped(geometry, target_m2) ==
    IF float64("ge", target_m2, Float(area(geometry))) \/ Cardinality(geometry) # 1
    THEN geometry
    ELSE LET x == CHOOSE y \in geometry : TRUE
         IN  Interval(x[1], x[1] + float64("round", target_m2, 0) \div StripDepth)

\* _extract_area: both branches return the geometry
_extract_area(geometry, target_m2) ==
    IF float64("ge", target_m2, Float(area(geometry))) THEN geometry ELSE geometry

\* mutant: the buffer sizes in decreasing order
BufferSizesDecreasing == <<2000, 1000, 500, 200, 100, 50>>

\* the progressive buffer sizes of _select_contigua_app
BufferSizes == <<50, 100, 200, 500, 1000, 2000>>

\* mutant: the protection zones are not buffered
area_contigua_unbuffered(app_union, buffer_size, disponivel) ==
    intersection(app_union, disponivel)

\* the candidate of one buffer size
area_contigua(app_union, buffer_size, disponivel) ==
    intersection(buffer(app_union, buffer_size), disponivel)

\* line 155: veg_area >= required_m2
veg_suffices(veg_area, required_m2) == float64("ge", Float(veg_area), required_m2)

\* mutant: the complement is searched in the whole available area
complement_region_whole(disponivel, veg_disponivel) == disponivel

\* line 163: disponivel.difference(veg_disponivel)
complement_region(disponivel, veg_disponivel) ==
    difference(disponivel, veg_disponivel)

\* mutant: the whole requirement is demanded
condic_of_full(area_ha, required_ha) ==
    IF float64("ge", area_ha, required_ha) THEN "PROPOSTA" ELSE "PROPOSTA_INCOMPLETA"

\* mutant: 95% itself is not enough
condic_of_strict(area_ha, required_ha) ==
    IF ~ float64("ge", float64("mul", required_ha,
                               float64("truediv", Float(95), 100)), area_ha)
    THEN "PROPOSTA" ELSE "PROPOSTA_INCOMPLETA"

\* 'PROPOSTA' if area_ha >= required_ha * 0.95 else 'PROPOSTA_INCOMPLETA'
condic_of(area_ha, required_ha) ==
    IF float64("ge", area_ha, float64("mul", required_ha,
                                      float64("truediv", Float(95), 100)))
    THEN "PROPOSTA" ELSE "PROPOSTA_INCOMPLETA"

\* mutant: a multi-part geometry is converted whole
rl_utm_to_wgs84_whole(geometry) == { to_wgs84(geometry) }

\* the results ReservaLegalCalculator._utm_to_wgs84 can return
rl_utm_to_wgs84(geometry) ==
    IF IsMultiPolygon(geometry)
    THEN { to_wgs84({x}) : x \in LargestParts(geometry) }
    ELSE { to_wgs84(geometry) }

(***************************************************************************)
(* ReservaLegalCalculator.suggest_location, step by step.                  *)
(***************************************************************************)
RLLocals(app_gdf, vegetacao_nativa_gdf) ==
    [pc |-> "start",
     app_gdf |-> app_gdf, vegetacao_nativa_gdf |-> vegetacao_nativa_gdf,
     required_ha |-> Float(0),
     required_m2 |-> Float(0),
     disponivel |-> EmptyGeom,          \* suggest_location's disponivel
     veg_disponivel |-> EmptyGeom,
     veg_branch |-> "none",             \* "none", "sufficient" or "complement"
     sel_disponivel |-> EmptyGeom,      \* _select_contigua_app's disponivel
     sel_required_m2 |-> Float(0),      \* _select_contigua_app's required_m2
     app_union |-> EmptyGeom,
     i |-> 0,                           \* position in BufferSizes
     tested |-> <<>>,                   \* buffer sizes tested so far
     found |-> "none",                  \* "none", "no_app", "buffer" or "fallback"
     complemento |-> EmptyGeom,         \* what _select_contigua_app returned
     rl_geometry |-> EmptyGeom,
     gdf |-> None]

\* lines 80-81: the required area
SuggestLocation ==
    /\ rl.pc = "start"
    /\ LET required_ha == calculate_required_area(calc)
       IN  rl' = [rl EXCEPT !.pc = "available",
                            !.required_ha = required_ha,
                            !.required_m2 = float64("mul", required_ha, Float(10000))]
    /\ calc' = after_perimeter_utm(calc)
    /\ UNCHANGED <<bw, app, shp, val, dup>>

\* line 84: disponivel = self._calculate_available_area(app_gdf)
CalculateAvailableArea ==
    /\ rl.pc = "available"
    /\ \E d \in _calculate_available_area(calc, rl.app_gdf) :
         rl' = [rl EXCEPT !.pc = "select", !.disponivel = d]
    /\ calc' = after_perimeter_utm(calc)
    /\ UNCHANGED <<bw, app, shp, val, dup>>

\* rl after _select_rl_area returned geometry
Selected(r, geometry) == [r EXCEPT !.pc = "output", !.rl_geometry = geometry]

\* rl after _select_contigua_app returned geometry: _select_rl_area joins it
\* to the native vegetation (line 167) or returns it as it is (line 170)
ContiguaReturns(r, how, geometry) ==
    Selected([r EXCEPT !.found = how, !.complemento = geometry],
             IF r.veg_branch = "complement"
             THEN unary_union({r.veg_disponivel, geometry})
             ELSE geometry)

\* rl at the call of _select_contigua_app(disponivel, app_gdf, required_m2)
ContiguaCalled(r, disponivel, required_m2) ==
    [r EXCEPT !.pc = "contigua", !.sel_disponivel = disponivel,
              !.sel_required_m2 = required_m2]

\* lines 144-170: _select_rl_area up to its return or its call of
\* _select_contigua_app
SelectRlArea ==
    /\ rl.pc = "select"
    /\ LET veg_union == unary_union(utm_geometries(rl.vegetacao_nativa_gdf))
           veg_disponivel == intersection(veg_union, rl.disponivel)
           veg_area == area(veg_disponivel)
       IN  IF HasRows(rl.vegetacao_nativa_gdf) /\ ~ is_empty(veg_disponivel)
           THEN IF veg_suffices(veg_area, rl.required_m2)
                THEN rl' = Selected(
                         [rl EXCEPT !.veg_disponivel = veg_disponivel,
                                    !.veg_branch = "sufficient"],
                         _extract_area(veg_disponivel, rl.required_m2))
                ELSE rl' = ContiguaCalled(
                         [rl EXCEPT !.veg_disponivel = veg_disponivel,
                                    !.veg_branch = "complement"],
                         complement_region(rl.disponivel, veg_disponivel),
                         float64("sub", rl.required_m2, Float(veg_area)))
           ELSE rl' = ContiguaCalled(rl, rl.disponivel, rl.required_m2)
    /\ UNCHANGED <<bw, calc, app, shp, val, dup>>

\* lines 179-184: without protection zones any available area is used,
\* otherwise the search starts
SelectContiguaApp ==
    /\ rl.pc = "contigua"
    /\ IF ~ HasRows(rl.app_gdf)
       THEN rl' = ContiguaReturns(rl, "no_app",
                      _extract_area(rl.sel_disponivel, rl.sel_required_m2))
       ELSE rl' = [rl EXCEPT !.pc = "loop", !.i = 1,
                      !.app_union = unary_union(utm_geometries(rl.app_gdf))]
    /\ UNCHANGED <<bw, calc, app, shp, val, dup>>

\* lines 187-192: one iteration of the loop over the buffer sizes
TestBufferSize ==
    /\ rl.pc = "loop"
    /\ rl.i <= Len(BufferSizes)
    /\ LET buffer_size == BufferSizes[rl.i]
           candidate == area_contigua(rl.app_union, buffer_size, rl.sel_disponivel)
           r == [rl EXCEPT !.tested = Append(@, buffer_size)]
       IN  IF float64("ge", Float(area(candidate)), rl.sel_required_m2)
           THEN rl' = ContiguaReturns(r, "buffer",
                          _extract_area(candidate, rl.sel_required_m2))
           ELSE rl' = [r EXCEPT !.i = @ + 1]
    /\ UNCHANGED <<bw, calc, app, shp, val, dup>>

\* lines 194-196: no buffer size was enough
ReturnAvailable ==
    /\ rl.pc = "loop"
    /\ rl.i > Len(BufferSizes)
    /\ rl' = ContiguaReturns(rl, "fallback", rl.sel_disponivel)
    /\ UNCHANGED <<bw, calc, app, shp, val, dup>>

\* mutant: no record for an empty geometry
rl_records_skip_empty(rl_wgs84, area_ha, required_ha, percent) ==
    IF is_empty(rl_wgs84) THEN <<>>
    ELSE << [geometry |-> rl_wgs84,
             cod_rl |-> "RL_001",
             des_condic |-> condic_of(area_ha, required_ha),
             num_area |-> float64("round", area_ha, 4),
             ind_averbada |-> "N",
             num_matricula |-> "",
             pct_exigido |-> float64("mul", percent, Float(100)),
             area_exigida_ha |-> float64("round", required_ha, 4)] >>

\* lines 101-110: the list of dicts the GeoDataFrame is made of; num_area and
\* area_exigida_ha, hectares rounded to four decimals, are kept in units of
\* 0.0001 ha (square metres)
rl_records(rl_wgs84, area_ha, required_ha, percent) ==
    << [geometry |-> rl_wgs84,
        cod_rl |-> "RL_001",
        des_condic |-> condic_of(area_ha, required_ha),
        num_area |-> float64("round", area_ha, 4),
        ind_averbada |-> "N",
        num_matricula |-> "",
        pct_exigido |-> float64("mul", percent, Float(100)),
        area_exigida_ha |-> float64("round", required_ha, 4)] >>

\* lines 94-114: the record of the suggested reserve
BuildRecord ==
    /\ rl.pc = "output"
    /\ \E rl_wgs84 \in rl_utm_to_wgs84(rl.rl_geometry) :
         rl' = [rl EXCEPT !.pc = "done",
                 !.gdf = Some(FrameOfRows(
                            rl_records(rl_wgs84,
                                       float64("truediv",
                                               Float(area(rl.rl_geometry)), 10000),
                                       rl.required_ha, calc.percent)))]
    /\ UNCHANGED <<bw, calc, app, shp, val, dup>>

(***************************************************************************)
(* Inputs of the allocator.  Coordinates are geographic (before the        *)
(* projection); the parcel starts at 0.                                    *)
(***************************************************************************)
MaxZones == 2
MaxVeg == 1

ParcelLengths == {0, 30, 250, 1000, 1500, 2500}
Perimeters == { Interval(0, l) : l \in ParcelLengths }

Biomas == {"MATA_ATLANTICA", "CERRADO", "AMAZONIA", "PAMPA"}

\* protection zones: at the left end, in the middle, at the right end of the
\* 1000 m parcel, outside every parcel, without area, covering every parcel,
\* and 44 m from the parcels (its 50 m buffer takes 6 m of a parcel)
ZonePool ==
    << Interval(0, 60), Interval(470, 530), Interval(940, 1000),
       Interval(-100, -20), Interval(700, 700), Interval(-50, 2600),
       Interval(-54, -44) >>

\* native vegetation; the last one is a fifth of the 30 m parcel
VegPool ==
    << Interval(100, 400), Interval(800, 900), Interval(30, 90),
       Interval(3000, 3100), Interval(0, 6) >>

RECURSIVE SeqOfIndices(_, _)
SeqOfIndices(pool, ix) ==
    IF ix = {} THEN <<>>
    ELSE LET k == CHOOSE m \in ix : \A n \in ix : m <= n
         IN  <<pool[k]>> \o SeqOfIndices(pool, ix \ {k})

\* the collections of at most max geometries of the pool, in pool order
Collections(pool, max) ==
    { SeqOfIndices(pool, ix) :
        ix \in { y \in SUBSET (1..Len(pool)) : Cardinality(y) <= max } }

ZoneRow(g) == [geometry |-> g, tip_app |-> "MARGEM_CURSO_DAGUA"]
VegRow(g) == [geometry |-> g, des_estagio |-> "MEDIO"]

AppInputs ==
    {None} \cup { Some(GeoDataFrame({"geometry", "tip_app"},
                                    [i \in 1..Len(c) |-> ZoneRow(c[i])])) :
                    c \in Collections(ZonePool, MaxZones) }

VegInputs ==
    {None} \cup { Some(GeoDataFrame({"geometry", "des_estagio"},
                                    [i \in 1..Len(c) |-> VegRow(c[i])])) :
                    c \in Collections(VegPool, MaxVeg) }

InitRL ==
    /\ bw = Idle
    /\ app = Idle
    /\ shp = Idle /\ val = Idle /\ dup = Idle
    /\ \E p \in Perimeters, b \in Biomas : calc = RLCalculator(p, b)
    /\ \E a \in AppInputs, v \in VegInputs : rl = RLLocals(a, v)

NextRL ==
    \/ SuggestLocation
    \/ CalculateAvailableArea
    \/ SelectRlArea
    \/ SelectContiguaApp
    \/ TestBufferSize
    \/ ReturnAvailable
    \/ BuildRecord

SpecRL == InitRL /\ [][NextRL]_vars

(***************************************************************************)
(* APPCalculator                                                           *)
(***************************************************************************)
APPCalculator(perimeter, dem_path) ==
    [perimeter |-> perimeter, dem_path |-> dem_path,
     _perimeter_utm |-> None, projections |-> 0]

\* APPCalculator._utm_to_wgs84
app_utm_to_wgs84(geometry) == to_wgs84(geometry)

\* mutant: an empty frame with the geometry column only
empty_app_gdf_bare == GeoDataFrame({"geometry"}, <<>>)

\* _empty_app_gdf
_empty_app_gdf ==
    GeoDataFrame({"geometry", "cod_app", "tip_app", "des_condic", "num_area"}, <<>>)

\* gpd.GeoDataFrame(apps, crs=DEFAULT_CRS) if apps, else _empty_app_gdf()
FrameOfApps(apps) == IF Len(apps) > 0 THEN FrameOfRows(apps) ELSE _empty_app_gdf

\* mutant: the buffered feature is not cut to the parcel
app_dentro_unclipped(app_buffer, perimeter) == app_buffer

\* app_dentro = app_buffer.intersection(perimeter)
app_dentro(app_buffer, perimeter) == intersection(app_buffer, perimeter)

\* row.get(column, default)
RowGet(row, column, default) ==
    IF column \in DOMAIN row THEN row[column] ELSE default

\* lines 116-145: the zone of the river row with the index label idx, as a
\* sequence of at most one record
margem_app(c, row, idx) ==
    LET river == to_utm(row.geometry)
        largura == RowGet(row, "largura_m", Fin(5))
        buffer_m == _get_buffer_by_width(largura)
        dentro == app_dentro(buffer(river, buffer_m), perimeter_utm(c))
    IN  IF ~ is_empty(dentro)
        THEN << [geometry |-> app_utm_to_wgs84(dentro),
                 cod_app |-> <<"APP_MARGEM", idx + 1>>,
                 tip_app |-> "MARGEM_CURSO_DAGUA",
                 des_condic |-> "A_CLASSIFICAR",
                 num_area |-> area(dentro),
                 buffer_m |-> buffer_m,
                 largura_rio_m |-> largura] >>
        ELSE <<>>

\* mutant: the spring gets the narrowest margin of a watercourse
nascente_buffer_margin(nascente) == buffer(nascente, 30)

\* line 174: nascente.buffer(APP_NASCENTE_RAIO_M)
nascente_buffer(nascente) == buffer(nascente, APP_NASCENTE_RAIO_M)

\* lines 171-190: the zone of the spring row with the index label idx
nascente_app(c, row, idx) ==
    LET nascente == to_utm(row.geometry)
        dentro == app_dentro(nascente_buffer(nascente), perimeter_utm(c))
    IN  IF ~ is_empty(dentro)
        THEN << [geometry |-> app_utm_to_wgs84(dentro),
                 cod_app |-> <<"APP_NASC", idx + 1>>,
                 tip_app |-> "NASCENTE",
                 des_condic |-> "A_CLASSIFICAR",
                 num_area |-> area(dentro),
                 buffer_m |-> APP_NASCENTE_RAIO_M] >>
        ELSE <<>>

\* lago.area / 10000, as a float in hundredths of a hectare
AreaHa(g) == <<"fin", area(g) \div (M2_PER_HA \div CM)>>

\* mutant: the lake itself is not taken out of its buffer
lago_ring_filled(lago, buffer_m) == buffer(lago, buffer_m)

\* line 215: lago.buffer(buffer_m).difference(lago)
lago_ring(lago, buffer_m) == difference(buffer(lago, buffer_m), lago)

\* lines 208-232: the zone of the lake row with the index label idx
lago_app(c, row, idx) ==
    LET lago == to_utm(row.geometry)
        area_ha == RowGet(row, "area_ha", AreaHa(lago))
        buffer_m == IF FLt(Fin(20), area_ha) THEN APP_LAGO_GRANDE_M
                    ELSE APP_LAGO_PEQUENO_M
        app_buffer == lago_ring(lago, buffer_m)
        dentro == app_dentro(app_buffer, perimeter_utm(c))
    IN  IF ~ is_empty(dentro)
        THEN << [geometry |-> app_utm_to_wgs84(dentro),
                 cod_app |-> <<"APP_LAGO", idx + 1>>,
                 tip_app |-> "LAGO_LAGOA",
                 des_condic |-> "A_CLASSIFICAR",
                 num_area |-> area(dentro),
                 buffer_m |-> buffer_m,
                 area_lago_ha |-> area_ha] >>
        ELSE <<>>

\* lines 277-298: the zone of the vectorized shape that enumerate numbers i;
\* the shape is given in geographic coordinates (after to_crs(DEFAULT_CRS))
decliv_app(c, shape, i) ==
    LET dentro == app_dentro(shape.geometry, c.perimeter)
    IN  IF shape.value = 1 /\ ~ is_empty(dentro)
        THEN << [geometry |-> dentro,
                 cod_app |-> <<"APP_DECLIV", i + 1>>,
                 tip_app |-> "DECLIVIDADE_SUPERIOR_45",
                 des_condic |-> "A_CLASSIFICAR",
                 num_area |-> area(to_utm(dentro))] >>
        ELSE <<>>

\* the loop over the rows of a layer, from position k on: kind selects the
\* rule; frame.index[k] is the label iterrows yields with the row at position
\* k (for the slope rule, the number enumerate yields)
RECURSIVE AppsFrom(_, _, _, _)
AppsFrom(kind, c, frame, k) ==
    IF k > Len(frame.rows) THEN <<>>
    ELSE (CASE kind = "margem"   -> margem_app(c, frame.rows[k], frame.index[k])
            [] kind = "nascente" -> nascente_app(c, frame.rows[k], frame.index[k])
            [] kind = "lago"     -> lago_app(c, frame.rows[k], frame.index[k])
            [] kind = "decliv"   -> decliv_app(c, frame.rows[k], frame.index[k]))
         \o AppsFrom(kind, c, frame, k + 1)

calculate_app_margem(c, rivers_gdf) ==
    FrameOfApps(AppsFrom("margem", c, rivers_gdf, 1))

calculate_app_nascente(c, nascentes_gdf) ==
    FrameOfApps(AppsFrom("nascente", c, nascentes_gdf, 1))

calculate_app_lago(c, lagos_gdf) ==
    FrameOfApps(AppsFrom("lago", c, lagos_gdf, 1))

\* mutant: the zones collected before the failure are returned
calculate_app_declividade_partial(c, dem) ==
    IF c.dem_path = None THEN None
    ELSE LET apps == AppsFrom("decliv", c, GeoDataFrame({}, dem.shapes), 1)
         IN  IF Len(apps) > 0 THEN Some(FrameOfRows(apps)) ELSE None

\* calculate_app_declividade: None without elevation source, when reading or
\* processing it raises (the except clauses, whatever was vectorized before),
\* and when no steep zone lies in the parcel.  dem is what the raster library
\* yields for dem_path: [outcome, shapes]
calculate_app_declividade(c, dem) ==
    IF c.dem_path = None THEN None
    ELSE IF dem.outcome # "ok" THEN None
    ELSE LET apps == AppsFrom("decliv", c, GeoDataFrame({}, dem.shapes), 1)
         IN  IF Len(apps) > 0 THEN Some(FrameOfRows(apps)) ELSE None

\* the rows of the frames one after the other, from frame k on
RECURSIVE rows_from(_, _)
rows_from(frames, k) ==
    IF k > Len(frames) THEN <<>> ELSE frames[k].rows \o rows_from(frames, k + 1)

\* mutant: the frames are joined last to first
concat_reversed(frames) ==
    LET columns == UNION { frames[k].columns : k \in 1..Len(frames) }
        reversed == [k \in 1..Len(frames) |-> frames[Len(frames) + 1 - k]]
        rows == rows_from(reversed, 1)
    IN  GeoDataFrame(columns,
            [i \in 1..Len(rows) |->
                [a \in columns |->
                    IF a \in DOMAIN rows[i] THEN rows[i][a] ELSE NaN]])

\* pd.concat(all_apps, ignore_index=True): the union of the columns, the rows
\* in the order of the frames under a new default index, NaN in the columns
\* a row's frame does not have
concat(frames) ==
    LET columns == UNION { frames[k].columns : k \in 1..Len(frames) }
        rows == rows_from(frames, 1)
    IN  GeoDataFrame(columns,
            [i \in 1..Len(rows) |->
                [a \in columns |->
                    IF a \in DOMAIN rows[i] THEN rows[i][a] ELSE NaN]])

(***************************************************************************)
(* APPCalculator.calculate_all_apps, one rule at a time.                   *)
(***************************************************************************)
APPLocals(rivers_gdf, nascentes_gdf, lagos_gdf, dem) ==
    [pc |-> "margem",
     rivers_gdf |-> rivers_gdf, nascentes_gdf |-> nascentes_gdf,
     lagos_gdf |-> lagos_gdf,
     dem |-> dem,                   \* what the raster library yields
     app_margem |-> None, app_nascente |-> None, app_lago |-> None,
     app_decliv |-> None,
     all_apps |-> <<>>,
     result |-> None]

\* all_apps after "if not x.empty: all_apps.append(x)"
Appended(all_apps, frame) ==
    IF Len(frame.rows) > 0 THEN Append(all_apps, frame) ELSE all_apps

\* lines 70-73
AppMargem ==
    /\ app.pc = "margem"
    /\ IF HasRows(app.rivers_gdf)
       THEN LET app_margem == calculate_app_margem(calc, app.rivers_gdf[1])
            IN  /\ app' = [app EXCEPT !.pc = "nascente",
                                      !.app_margem = Some(app_margem),
                                      !.all_apps = Appended(@, app_margem)]
                /\ calc' = after_perimeter_utm(calc)
       ELSE /\ app' = [app EXCEPT !.pc = "nascente"]
            /\ calc' = calc
    /\ UNCHANGED <<bw, rl, shp, val, dup>>

\* lines 76-79
AppNascente ==
    /\ app.pc = "nascente"
    /\ IF HasRows(app.nascentes_gdf)
       THEN LET app_nascente == calculate_app_nascente(calc, app.nascentes_gdf[1])
            IN  /\ app' = [app EXCEPT !.pc = "lago",
                                      !.app_nascente = Some(app_nascente),
                                      !.all_apps = Appended(@, app_nascente)]
                /\ calc' = after_perimeter_utm(calc)
       ELSE /\ app' = [app EXCEPT !.pc = "lago"]
            /\ calc' = calc
    /\ UNCHANGED <<bw, rl, shp, val, dup>>

\* lines 82-85
AppLago ==
    /\ app.pc = "lago"
    /\ IF HasRows(app.lagos_gdf)
       THEN LET app_lago == calculate_app_lago(calc, app.lagos_gdf[1])
            IN  /\ app' = [app EXCEPT !.pc = "decliv",
                                      !.app_lago = Some(app_lago),
                                      !.all_apps = Appended(@, app_lago)]
                /\ calc' = after_perimeter_utm(calc)
       ELSE /\ app' = [app EXCEPT !.pc = "decliv"]
            /\ calc' = calc
    /\ UNCHANGED <<bw, rl, shp, val, dup>>

\* lines 88-91
AppDeclividade ==
    /\ app.pc = "decliv"
    /\ IF calc.dem_path # None
       THEN LET app_decliv == calculate_app_declividade(calc, app.dem)
            IN  app' = [app EXCEPT !.pc = "consolidate",
                            !.app_decliv = app_decliv,
                            !.all_apps = IF app_decliv # None
                                         THEN Appended(@, app_decliv[1]) ELSE @]
       ELSE app' = [app EXCEPT !.pc = "consolidate"]
    /\ UNCHANGED <<bw, calc, rl, shp, val, dup>>

\* lines 94-103
Consolidate ==
    /\ app.pc = "consolidate"
    /\ app' = [app EXCEPT !.pc = "done",
                  !.result = IF Len(app.all_apps) > 0
                             THEN Some(concat(app.all_apps))
                             ELSE Some(_empty_app_gdf)]
    /\ UNCHANGED <<bw, calc, rl, shp, val, dup>>

(***************************************************************************)
(* Inputs of the zone engine, in geographic coordinates.                   *)
(***************************************************************************)
MaxFeatures == 2

APPPerimeters == { Interval(0, 1000), Interval(200, 450) }

\* a watercourse is a line across the section
River(x) == [geometry |-> Interval(x, x)]
RiverW(x, w) == [geometry |-> Interval(x, x), largura_m |-> w]

RiverPool ==
    << RiverW(500, Fin(5)),  RiverW(-30, Fin(5)),   RiverW(-29, Fin(5)),
       RiverW(-40, Fin(5)),  RiverW(1050, Fin(25)), RiverW(1049, Fin(25)),
       RiverW(300, NaN),     RiverW(1200, <<"fin", 50 * CM + 1>>),
       River(-200),          River(0) >>

Spring(x) == [geometry |-> Interval(x, x), tipo |-> "NASCENTE"]

SpringPool == << Spring(300), Spring(-50), Spring(-20), Spring(1080) >>

Lake(lo, hi) == [geometry |-> Interval(lo, hi)]
LakeA(lo, hi, a) == [geometry |-> Interval(lo, hi), area_ha |-> a]

LakePool ==
    << Lake(250, 350), Lake(600, 800), Lake(100, 400), Lake(-300, -40),
       LakeA(250, 350, Fin(25)), LakeA(-500, -100, Fin(10)),
       LakeA(900, 1100, NaN), LakeA(100, 400, NaN) >>

Shape(lo, hi) == [geometry |-> Interval(lo, hi), value |-> 1]

ShapePool == << Shape(100, 200), Shape(-100, 50), Shape(2000, 2100) >>

\* the rows of one frame have the same columns
Uniform(rows) == \A i, j \in 1..Len(rows) : DOMAIN rows[i] = DOMAIN rows[j]

\* the layers handed to the engine: absent, empty, or rows under the default
\* index or (one or two rows) under the labels 1, 3 that remain when a frame
\* read from a file is filtered (rivers[rivers.intersects(search_area)])
Frames(pool) ==
    {None} \cup
    { Some(IF Len(c) = 0 THEN GeoDataFrame({"geometry"}, <<>>) ELSE FrameOfRows(c)) :
        c \in { d \in Collections(pool, MaxFeatures) : Uniform(d) } }
    \cup
    { Some([FrameOfRows(c) EXCEPT !.index = [i \in 1..Len(c) |-> 2 * i - 1]]) :
        c \in { d \in Collections(pool, MaxFeatures) : Uniform(d) /\ Len(d) \in {1, 2} } }

DemInputs ==
    { [dem_path |-> None, dem |-> [outcome |-> "none", shapes |-> <<>>]] }
    \cup { [dem_path |-> Some("dem.tif"),
             dem |-> [outcome |-> "import_error", shapes |-> <<>>]] }
    \cup { [dem_path |-> Some("dem.tif"), dem |-> [outcome |-> o, shapes |-> c]] :
             o \in {"error", "ok"}, c \in Collections(ShapePool, MaxFeatures) }

NRows(gdf) == IF gdf = None THEN 0 ELSE Len(gdf[1].rows)

InitAPP ==
    /\ bw = Idle
    /\ rl = Idle
    /\ shp = Idle /\ val = Idle /\ dup = Idle
    /\ \E p \in APPPerimeters, d \in DemInputs,
          r \in Frames(RiverPool), n \in Frames(SpringPool), l \in Frames(LakePool) :
         /\ NRows(r) + NRows(n) + NRows(l) + Len(d.dem.shapes) <= MaxFeatures
         /\ calc = APPCalculator(p, d.dem_path)
         /\ app = APPLocals(r, n, l, d.dem)

NextAPP ==
    \/ AppMargem
    \/ AppNascente
    \/ AppLago
    \/ AppDeclividade
    \/ Consolidate

SpecAPP == InitAPP /\ [][NextAPP]_vars

(***************************************************************************)
(* main.run_pipeline, phase 3: the zone engine without elevation source,   *)
(* then the allocator on the zones it returned (no manual reserve in the   *)
(* input, no native vegetation).                                           *)
(***************************************************************************)
\* the bioma argument of run_pipeline, until the allocator is constructed
PipelineLocals(bioma) == [pc |-> "apps", bioma |-> bioma]

\* x if not x.empty else None
NoneIfEmpty(gdf) == IF HasRows(gdf) THEN gdf ELSE None

\* lines 183-186: rl_calc = ReservaLegalCalculator(perimeter, bioma) and the
\* call of rl_calc.suggest_location
ReservaLegal ==
    /\ app.pc = "done"
    /\ rl.pc = "apps"
    /\ calc' = RLCalculator(calc.perimeter, rl.bioma)
    /\ rl' = RLLocals(NoneIfEmpty(app.result), None)
    /\ UNCHANGED <<bw, app, shp, val, dup>>

\* watercourses of the pipeline: across the parcel at several places, on its
\* boundary, outside it, of several widths
PipelineRiverPool ==
    << RiverW(15, Fin(5)),   RiverW(100, Fin(5)),  RiverW(300, Fin(5)),
       RiverW(500, Fin(5)),  RiverW(900, Fin(5)),  RiverW(990, Fin(5)),
       RiverW(0, Fin(5)),    RiverW(-200, Fin(5)), RiverW(500, Fin(25)),
       RiverW(120, Fin(700)) >>

PipelinePerimeters == { Interval(0, 1000), Interval(0, 250) }

\* run_pipeline with the default biome and with the biome of the other
\* percentage
InitCAR ==
    /\ bw = Idle
    /\ shp = Idle /\ val = Idle /\ dup = Idle
    /\ \E b \in {"MATA_ATLANTICA", "AMAZONIA"} : rl = PipelineLocals(b)
    /\ \E p \in PipelinePerimeters,
          r \in Frames(PipelineRiverPool), n \in Frames(SpringPool),
          l \in Frames(LakePool) :
         /\ NRows(r) + NRows(n) + NRows(l) <= MaxFeatures
         /\ calc = APPCalculator(p, None)
         /\ app = APPLocals(NoneIfEmpty(r), NoneIfEmpty(n), NoneIfEmpty(l),
                            [outcome |-> "none", shapes |-> <<>>])

NextCAR ==
    \/ AppMargem
    \/ AppNascente
    \/ AppLago
    \/ AppDeclividade
    \/ Consolidate
    \/ ReservaLegal
    \/ SuggestLocation
    \/ CalculateAvailableArea
    \/ SelectRlArea
    \/ SelectContiguaApp
    \/ TestBufferSize
    \/ ReturnAvailable
    \/ BuildRecord

SpecCAR == InitCAR /\ [][NextCAR]_vars

(***************************************************************************)
(* Widths tried: every hundredth of a metre within MaxDelta hundredths of  *)
(* a table bound, some widths in between, infinity and NaN.                *)
(***************************************************************************)
MaxDelta == 2

FiniteKeys == { k[1][2] : k \in { i \in APP_MARGEM : i[1][1] = "fin" } }

Widths ==
    { <<"fin", k + d>> : k \in FiniteKeys, d \in (0 - MaxDelta)..MaxDelta }
    \cup { Fin(0), Fin(5), Fin(25), Fin(100), Fin(400), Fin(1000), Inf, NaN }

BWInit == bw = [pc |-> "idle", width_m |-> NaN, ret |-> 0,
                has_prev |-> FALSE, prev_width_m |-> NaN, prev_ret |-> 0]

\* one call of _get_buffer_by_width; the previous call is remembered
BWCall ==
    /\ \E w \in Widths :
         bw' = [pc |-> "returned", width_m |-> w,
                ret |-> _get_buffer_by_width(w),
                has_prev |-> (bw.pc = "returned"),
                prev_width_m |-> bw.width_m, prev_ret |-> bw.ret]
    /\ UNCHANGED <<calc, rl, app, shp, val, dup>>

InitBW ==
    /\ BWInit
    /\ calc = Idle /\ rl = Idle /\ app = Idle
    /\ shp = Idle /\ val = Idle /\ dup = Idle
NextBW == BWCall
SpecBW == InitBW /\ [][NextBW]_vars

(***************************************************************************)
(* Properties                                                              *)
(***************************************************************************)
\* a lies inside b
Within(a, b) == \A x \in a : \E y \in b : y[1] <= x[1] /\ x[2] <= y[2]

\* a and b share some area
Overlap(a, b) == area(intersection(a, b)) > 0

\* the table of section 4.2: the buffer of a width that is not NaN
TableBuffer(w) ==
    IF w[1] = "inf" THEN 500
    ELSE IF w[2] <= 10 * CM THEN 30
    ELSE IF w[2] <= 50 * CM THEN 50
    ELSE IF w[2] <= 200 * CM THEN 100
    ELSE IF w[2] <= 600 * CM THEN 200
    ELSE 500

\* C1: _get_buffer_by_width returns the buffer of the smallest table bound
\* that is >= w; one hundredth of a metre above a bound gives the next
\* buffer; and of two calls, the one with the larger width never gets the
\* smaller buffer.
C1_BufferByWidth ==
    (bw.pc = "returned" /\ bw.width_m[1] # "nan") =>
        /\ bw.ret = TableBuffer(bw.width_m)
        /\ (bw.width_m = Fin(10)) => bw.ret = 30
        /\ (bw.width_m = <<"fin", 10 * CM + 1>>) => bw.ret = 50
        /\ (bw.width_m = Fin(50)) => bw.ret = 50
        /\ (bw.width_m = <<"fin", 50 * CM + 1>>) => bw.ret = 100
        /\ (bw.width_m = <<"fin", 600 * CM + 1>>) => bw.ret = 500
        /\ (bw.has_prev /\ FLeq(bw.prev_width_m, bw.width_m)) =>
               bw.prev_ret <= bw.ret

\* a call with width 10 m followed by a call with width 10.01 m
C1_Witness ==
    /\ bw.pc = "returned" /\ bw.has_prev
    /\ bw.prev_width_m = Fin(10) /\ bw.prev_ret = 30
    /\ bw.width_m = <<"fin", 10 * CM + 1>> /\ bw.ret = 50

RLDone == rl.pc = "done"
RLRow == rl.gdf[1].rows[1]

\* an area in square metres is >= a required area (a float)
Reaches(area_m2, required_m2) == float64("ge", Float(area_m2), required_m2)

\* C2: the status of the record is PROPOSTA exactly when the achieved area
\* is at least 95% of the required area, PROPOSTA_INCOMPLETA otherwise.
C2_StatusAt95Percent ==
    RLDone =>
        /\ RLRow.des_condic \in {"PROPOSTA", "PROPOSTA_INCOMPLETA"}
        /\ RLRow.des_condic = "PROPOSTA" <=>
               RLRow.num_area * 100 >= RLRow.area_exigida_ha * 95

\* an achieved area of exactly 95% of a positive requirement, complete
C2_Witness ==
    /\ RLDone
    /\ RLRow.area_exigida_ha > 0
    /\ RLRow.num_area * 100 = RLRow.area_exigida_ha * 95
    /\ RLRow.des_condic = "PROPOSTA"

\* the union of the protection zones supplied, in geographic coordinates
SuppliedZones ==
    IF rl.app_gdf = None THEN EmptyGeom
    ELSE unary_union({ rl.app_gdf[1].rows[i].geometry :
                         i \in 1..Len(rl.app_gdf[1].rows) })

\* C3: the geometry of the record lies inside the parcel minus the union of
\* the protection zones: it shares no area with a zone and does not leave
\* the parcel.
C3_InsideAvailable ==
    RLDone =>
        /\ Within(RLRow.geometry, difference(calc.perimeter, SuppliedZones))
        /\ Within(RLRow.geometry, calc.perimeter)
        /\ ~ Overlap(RLRow.geometry, SuppliedZones)

\* a non-empty allocation in a parcel that a supplied zone cuts into
C3_Witness ==
    /\ RLDone
    /\ ~ is_empty(RLRow.geometry)
    /\ Overlap(calc.perimeter, SuppliedZones)
    /\ RLRow.num_area > 0

\* C6: the required area is the metric area of the parcel in hectares times
\* 0.20 for MATA_ATLANTICA, CERRADO and unknown biomes, 0.80 for AMAZONIA, a
\* product of floats that agrees with the exact product to the fourth decimal
\* of a hectare (and, in square metres, to the square metre); 100 ha give
\* exactly 20, 20, 80 and 20 ha.
C6_RequiredArea ==
    rl.pc \notin {"idle", "start"} =>
        LET pct == IF calc.bioma = "AMAZONIA" THEN 80 ELSE 20
            parcel_m2 == area(to_utm(calc.perimeter))
        IN  /\ rl.required_ha =
                   float64("mul", float64("truediv", Float(parcel_m2), M2_PER_HA),
                           float64("truediv", Float(pct), 100))
            /\ float64("round", rl.required_ha, 4) * 100 = parcel_m2 * pct
            /\ float64("round", rl.required_m2, 0) * 100 = parcel_m2 * pct
            /\ parcel_m2 = 100 * M2_PER_HA =>
                   /\ rl.required_ha = Float(pct)
                   /\ rl.required_m2 = Float(pct * M2_PER_HA)

\* a 100 ha parcel of an unrecognized biome requires 20 ha
C6_Witness ==
    /\ rl.pc = "available"
    /\ calc.bioma \notin {"MATA_ATLANTICA", "CERRADO", "AMAZONIA"}
    /\ area(to_utm(calc.perimeter)) = 100 * M2_PER_HA
    /\ rl.required_ha = Float(20)

\* the candidate of a buffer size in the search at hand
Candidate(size) == intersection(buffer(rl.app_union, size), rl.sel_disponivel)

\* C7: the buffer sizes are tested in the order 50, 100, 200, 500, 1000,
\* 2000; a size that reaches the required area ends the search, its region
\* is the one returned, every size tested before it fell short, and no size
\* is tested after it.
C7_FirstSufficientStep ==
    LET sizes == <<50, 100, 200, 500, 1000, 2000>>
        n == Len(rl.tested)
    IN  rl.pc \notin {"idle"} =>
        /\ n <= 6
        /\ \A k \in 1..n : rl.tested[k] = sizes[k]
        /\ \A k \in 1..n :
             Reaches(area(Candidate(sizes[k])), rl.sel_required_m2) =>
                 /\ k = n
                 /\ rl.found = "buffer"
                 /\ rl.complemento = Candidate(sizes[k])
        /\ rl.found = "buffer" =>
             n >= 1 /\ Reaches(area(Candidate(sizes[n])), rl.sel_required_m2)

\* a search that ended at the third size, after two sizes fell short
C7_Witness ==
    /\ RLDone /\ rl.found = "buffer"
    /\ rl.tested = <<50, 100, 200>>
    /\ Reaches(area(rl.complemento), rl.sel_required_m2)
    /\ rl.sel_required_m2 # Float(0)

\* the native vegetation supplied, in geographic coordinates
SuppliedVegetation ==
    IF rl.vegetacao_nativa_gdf = None THEN EmptyGeom
    ELSE unary_union({ rl.vegetacao_nativa_gdf[1].rows[i].geometry :
                         i \in 1..Len(rl.vegetacao_nativa_gdf[1].rows) })

\* the supplied vegetation inside the available area, in metric coordinates
VegetationAvailable == intersection(to_utm(SuppliedVegetation), rl.disponivel)

\* C8: when the supplied vegetation inside the available area has an area
\* >= the required area, the returned allocation lies within the vegetation
\* and no buffer size is tested.
C8_VegetationSufficient ==
    (RLDone /\ HasRows(rl.vegetacao_nativa_gdf)
            /\ Reaches(area(VegetationAvailable), rl.required_m2)) =>
        /\ Within(RLRow.geometry, SuppliedVegetation)
        /\ rl.tested = <<>>

\* C9: when the vegetation inside the available area is non-empty but below
\* the required area, the selected region is the union of that whole
\* vegetation and a complement searched for the deficit in the available
\* area without the vegetation; the two share no area and the achieved area
\* is the sum of their areas.
C9_VegetationComplement ==
    (rl.pc \in {"output", "done"} /\ HasRows(rl.vegetacao_nativa_gdf)
        /\ ~ is_empty(VegetationAvailable)
        /\ ~ Reaches(area(VegetationAvailable), rl.required_m2)) =>
        /\ rl.veg_disponivel = VegetationAvailable
        /\ rl.sel_disponivel = difference(rl.disponivel, VegetationAvailable)
        /\ rl.sel_required_m2 =
               float64("sub", rl.required_m2, Float(area(VegetationAvailable)))
        /\ rl.found # "none"
        /\ Within(rl.complemento, rl.sel_disponivel)
        /\ ~ Overlap(rl.complemento, VegetationAvailable)
        /\ rl.rl_geometry = unary_union({VegetationAvailable, rl.complemento})
        /\ area(rl.rl_geometry) = area(VegetationAvailable) + area(rl.complemento)
        /\ RLDone => RLRow.num_area = area(VegetationAvailable) + area(rl.complemento)

\* vegetation below the requirement, completed by a buffer of the zones
C9_Witness ==
    /\ RLDone /\ rl.found = "buffer"
    /\ area(VegetationAvailable) > 0
    /\ ~ Reaches(area(VegetationAvailable), rl.required_m2)
    /\ area(rl.complemento) > 0
    /\ RLRow.num_area = area(VegetationAvailable) + area(rl.complemento)

\* _select_contigua_app ran without protection zones, or its largest buffer
\* fell short
FellBack ==
    /\ rl.pc \in {"output", "done"}
    /\ rl.veg_branch # "sufficient"
    /\ \/ ~ HasRows(rl.app_gdf)
       \/ ~ Reaches(area(intersection(
                             buffer(unary_union(utm_geometries(rl.app_gdf)), 2000),
                             rl.sel_disponivel)),
                     rl.sel_required_m2)

\* C10 as stated: in that case the entire available area is returned and the
\* record is incomplete whenever that area is short of the requirement.
C10_Original ==
    (FellBack /\ RLDone) =>
        /\ rl.complemento = rl.sel_disponivel
        /\ area(rl.rl_geometry) = area(rl.disponivel)
        /\ ~ Reaches(area(rl.rl_geometry), rl.required_m2) =>
               RLRow.des_condic = "PROPOSTA_INCOMPLETA"

\* C10 amended: in that case the entire available area is returned and the
\* record is incomplete whenever that area is below 95% of the requirement.
C10_FallbackWholeAvailable ==
    FellBack =>
        /\ rl.found = (IF HasRows(rl.app_gdf) THEN "fallback" ELSE "no_app")
        /\ rl.complemento = rl.sel_disponivel
        /\ area(rl.rl_geometry) = area(rl.disponivel)
        /\ Within(rl.disponivel, rl.rl_geometry)
        /\ RLDone =>
             /\ RLRow.num_area = area(rl.disponivel)
             /\ RLRow.num_area * 100 < RLRow.area_exigida_ha * 95 =>
                    RLRow.des_condic = "PROPOSTA_INCOMPLETA"

\* the six buffer sizes fell short and the available area, below 95% of the
\* requirement, is returned and flagged incomplete
C10_Witness ==
    /\ RLDone /\ rl.found = "fallback"
    /\ rl.tested = <<50, 100, 200, 500, 1000, 2000>>
    /\ RLRow.num_area > 0
    /\ RLRow.num_area * 100 < RLRow.area_exigida_ha * 95
    /\ RLRow.des_condic = "PROPOSTA_INCOMPLETA"

\* the rows of an optional frame
RowsOf(gdf) == IF gdf = None THEN <<>> ELSE gdf[1].rows

\* the row of a layer that a zone with the given number was made for: the
\* number is the index label of the row plus one
FeatureRow(gdf, number) ==
    gdf[1].rows[CHOOSE i \in 1..Len(gdf[1].rows) : gdf[1].index[i] + 1 = number]

\* the frames of zones the rules have produced so far
ZoneFrames ==
    { app.app_margem, app.app_nascente, app.app_lago, app.app_decliv, app.result }

\* the buffered geometry of the feature a zone record was made for, in
\* metric coordinates
BufferedFeature(zone) ==
    LET k == zone.cod_app[2]
    IN  CASE zone.tip_app = "MARGEM_CURSO_DAGUA" ->
               buffer(to_utm(FeatureRow(app.rivers_gdf, k).geometry), zone.buffer_m)
          [] zone.tip_app = "NASCENTE" ->
               buffer(to_utm(FeatureRow(app.nascentes_gdf, k).geometry), zone.buffer_m)
          [] zone.tip_app = "LAGO_LAGOA" ->
               buffer(to_utm(FeatureRow(app.lagos_gdf, k).geometry), zone.buffer_m)
          [] zone.tip_app = "DECLIVIDADE_SUPERIOR_45" ->
               to_utm(app.dem.shapes[k].geometry)

\* C4: every zone the four rules emit lies inside the parcel, and a zone is
\* emitted only for a feature whose buffered geometry meets the parcel.
C4_ZonesInsideParcel ==
    app.pc # "idle" =>
        \A f \in ZoneFrames : \A i \in 1..Len(RowsOf(f)) :
            LET zone == RowsOf(f)[i]
            IN  /\ ~ is_empty(zone.geometry)
                /\ Within(zone.geometry, calc.perimeter)
                /\ ~ is_empty(intersection(BufferedFeature(zone), to_utm(calc.perimeter)))
                /\ Within(to_utm(zone.geometry), BufferedFeature(zone))

\* a zone made for a feature whose buffered geometry leaves the parcel
C4_Witness ==
    /\ app.pc = "done"
    /\ Len(RowsOf(app.result)) >= 2
    /\ \E i \in 1..Len(RowsOf(app.result)) :
         LET zone == RowsOf(app.result)[i]
         IN  /\ zone.num_area > 0
             /\ ~ Within(BufferedFeature(zone), to_utm(calc.perimeter))

\* C5: a single watercourse outside the parcel yields a zone exactly when
\* its distance to the parcel is strictly below the buffer of its width.
C5_OutsideWatercourse ==
    (app.app_margem # None /\ Len(RowsOf(app.rivers_gdf)) = 1) =>
        LET row == RowsOf(app.rivers_gdf)[1]
            dist == distance(to_utm(row.geometry), to_utm(calc.perimeter))
            buffer_m == _get_buffer_by_width(RowGet(row, "largura_m", Fin(5)))
        IN  dist > 0 => (Len(RowsOf(app.app_margem)) > 0 <=> dist < buffer_m)

\* C11: for a parcel without area, or a required area of zero, the record
\* has an empty geometry and the status PROPOSTA_INCOMPLETA.
C11_DegenerateIncomplete ==
    (RLDone /\ (area(to_utm(calc.perimeter)) = 0 \/ rl.required_m2 = Float(0))) =>
        /\ is_empty(RLRow.geometry)
        /\ RLRow.des_condic = "PROPOSTA_INCOMPLETA"

\* C12: whenever the geometry of the record covers less than 95% of the
\* required area, the status of the record is PROPOSTA_INCOMPLETA.
C12_ReturnedGeometryMeetsQuota ==
    RLDone =>
        (area(to_utm(RLRow.geometry)) * 100 < RLRow.area_exigida_ha * 95 =>
             RLRow.des_condic = "PROPOSTA_INCOMPLETA")

\* the zones of one classification in a frame of zones
ZonesOf(gdf, tip_app) ==
    SelectSeq(RowsOf(gdf), LAMBDA zone : zone.tip_app = tip_app)

\* the area of a lake in hectares: its area value when it has one, the area
\* of its geometry otherwise
LakeAreaHa(row) ==
    IF "area_ha" \in DOMAIN row /\ row.area_ha[1] # "nan"
    THEN row.area_ha
    ELSE AreaHa(to_utm(row.geometry))

\* C13: the zone of a lake has buffer 50 m when the area of the lake is
\* <= 20 ha and 100 m when it is > 20 ha, the area being the area attribute
\* of the record if it has one and the area of the geometry otherwise.
C13_LakeBufferByArea ==
    app.pc # "idle" =>
        \A i \in 1..Len(RowsOf(app.app_lago)) :
            LET zone == RowsOf(app.app_lago)[i]
                row == FeatureRow(app.lagos_gdf, zone.cod_app[2])
            IN  zone.buffer_m = (IF FLeq(LakeAreaHa(row), Fin(20)) THEN 50 ELSE 100)

\* the lake a lake zone was made for, in metric coordinates
LakeOf(zone) == to_utm(FeatureRow(app.lagos_gdf, zone.cod_app[2]).geometry)

\* C14: every lake zone is the buffered lake minus the lake, cut to the
\* parcel; it shares no area with its lake and does not leave the parcel,
\* wherever the lake lies.
C14_LakeRing ==
    app.pc # "idle" =>
        \A f \in {app.app_lago, app.result} :
            \A i \in 1..Len(ZonesOf(f, "LAGO_LAGOA")) :
                LET zone == ZonesOf(f, "LAGO_LAGOA")[i]
                    lago == LakeOf(zone)
                IN  /\ to_utm(zone.geometry) =
                           intersection(difference(buffer(lago, zone.buffer_m), lago),
                                        to_utm(calc.perimeter))
                    /\ ~ Overlap(to_utm(zone.geometry), lago)
                    /\ Within(zone.geometry, calc.perimeter)

\* a zone with area made for a lake that lies across the parcel boundary
C14_Witness ==
    /\ app.pc = "done"
    /\ \E i \in 1..Len(ZonesOf(app.result, "LAGO_LAGOA")) :
         LET zone == ZonesOf(app.result, "LAGO_LAGOA")[i]
         IN  /\ zone.num_area > 0
             /\ Overlap(LakeOf(zone), to_utm(calc.perimeter))
             /\ ~ Within(LakeOf(zone), to_utm(calc.perimeter))

\* C15: a spring gets a zone exactly when its 50 m buffer meets the parcel;
\* the zone is that buffer cut to the parcel and records the radius 50,
\* whether the spring lies inside the parcel or not.
C15_SpringRadius ==
    (app.pc # "idle" /\ app.app_nascente # None) =>
        \A k \in 1..Len(RowsOf(app.nascentes_gdf)) :
            LET spring == to_utm(RowsOf(app.nascentes_gdf)[k].geometry)
                reach == intersection(buffer(spring, 50), to_utm(calc.perimeter))
                zones == { i \in 1..Len(RowsOf(app.app_nascente)) :
                             RowsOf(app.app_nascente)[i].cod_app[2]
                                = app.nascentes_gdf[1].index[k] + 1 }
            IN  IF is_empty(reach) THEN zones = {}
                ELSE /\ Cardinality(zones) = 1
                     /\ \A i \in zones :
                          /\ RowsOf(app.app_nascente)[i].buffer_m = 50
                          /\ to_utm(RowsOf(app.app_nascente)[i].geometry) = reach

\* a spring outside the parcel with a zone inside it, next to a spring whose
\* buffer does not reach the parcel
C15_Witness ==
    /\ app.pc = "done"
    /\ Len(RowsOf(app.nascentes_gdf)) = 2
    /\ Len(RowsOf(app.app_nascente)) = 1
    /\ RowsOf(app.app_nascente)[1].num_area > 0
    /\ is_empty(intersection(
           to_utm(FeatureRow(app.nascentes_gdf,
                             RowsOf(app.app_nascente)[1].cod_app[2]).geometry),
           to_utm(calc.perimeter)))

\* the zones one rule makes of a supplied layer
RuleZones(kind, gdf) ==
    IF HasRows(gdf) THEN AppsFrom(kind, calc, gdf[1], 1) ELSE <<>>

\* the zones of the slope rule: none without elevation source or when
\* reading or processing it fails
SlopeZones ==
    IF calc.dem_path # None /\ app.dem.outcome = "ok"
    THEN AppsFrom("decliv", calc, GeoDataFrame({}, app.dem.shapes), 1) ELSE <<>>

\* the attribute schema of a collection of zones
AppSchema == {"geometry", "cod_app", "tip_app", "des_condic", "num_area"}

\* C16: calculate_all_apps always returns a collection, never None; when
\* no rule yields a zone the collection has no record and exactly the
\* columns geometry, cod_app, tip_app, des_condic and num_area.
C16_EmptyResultKeepsSchema ==
    app.pc = "done" =>
        /\ app.result # None
        /\ AppSchema \subseteq app.result[1].columns
        /\ Len(app.result[1].rows) =
               Len(RuleZones("margem", app.rivers_gdf))
             + Len(RuleZones("nascente", app.nascentes_gdf))
             + Len(RuleZones("lago", app.lagos_gdf)) + Len(SlopeZones)
        /\ Len(app.result[1].rows) = 0 =>
               app.result = Some(GeoDataFrame(AppSchema, <<>>))

\* layers and steep shapes were supplied, none of them reaches the parcel
C16_Witness ==
    /\ app.pc = "done"
    /\ HasRows(app.rivers_gdf) \/ HasRows(app.nascentes_gdf) \/ HasRows(app.lagos_gdf)
    /\ calc.dem_path # None /\ app.dem.outcome = "ok" /\ Len(app.dem.shapes) > 0
    /\ app.result = Some(GeoDataFrame(AppSchema, <<>>))

\* what calculate_all_apps returns for the layers at hand without elevation
\* source
WithoutElevation ==
    LET frames == SelectSeq(<< FrameOfApps(RuleZones("margem", app.rivers_gdf)),
                               FrameOfApps(RuleZones("nascente", app.nascentes_gdf)),
                               FrameOfApps(RuleZones("lago", app.lagos_gdf)) >>,
                            LAMBDA f : Len(f.rows) > 0)
    IN  IF Len(frames) > 0 THEN concat(frames) ELSE _empty_app_gdf

\* C17: when the elevation source is configured and reading or processing
\* it fails, calculate_all_apps returns what it returns without elevation
\* source: the river, spring and lake zones, and no slope zone.
C17_ElevationFailure ==
    (app.pc = "done" /\ calc.dem_path # None /\ app.dem.outcome # "ok") =>
        /\ app.app_decliv = None
        /\ app.result = Some(WithoutElevation)
        /\ Len(ZonesOf(app.result, "DECLIVIDADE_SUPERIOR_45")) = 0

\* processing failed after a steep shape inside the parcel was vectorized,
\* and the zone of another layer is returned
C17_Witness ==
    /\ app.pc = "done"
    /\ calc.dem_path # None /\ app.dem.outcome = "error"
    /\ \E k \in 1..Len(app.dem.shapes) :
         Overlap(app.dem.shapes[k].geometry, calc.perimeter)
    /\ Len(RowsOf(app.result)) >= 1

\* the frames of zones of the four rules
RuleFrames == { app.app_margem, app.app_nascente, app.app_lago, app.app_decliv }

\* C18: in the zones of one rule, the i-th zone has the number i: no gaps,
\* also when a feature yields no zone, and no number twice.
C18_SequentialCodes ==
    app.pc # "idle" =>
        \A f \in RuleFrames :
            /\ \A i \in 1..Len(RowsOf(f)) : RowsOf(f)[i].cod_app[2] = i
            /\ \A i, j \in 1..Len(RowsOf(f)) :
                 RowsOf(f)[i].cod_app = RowsOf(f)[j].cod_app => i = j

\* the attributes of the record of a suggested reserve
RlSchema ==
    {"geometry", "cod_rl", "des_condic", "num_area", "area_exigida_ha",
     "pct_exigido", "ind_averbada", "num_matricula"}

\* C19: suggest_location returns a collection of exactly one record, which
\* has geometry, code, status, achieved area, required area, required
\* percentage, registered flag and registry reference.
C19_OneRecord ==
    RLDone =>
        /\ rl.gdf # None
        /\ Len(rl.gdf[1].rows) = 1
        /\ rl.gdf[1].columns = RlSchema
        /\ DOMAIN RLRow = RlSchema
        /\ RLRow.cod_rl = "RL_001"
        /\ RLRow.pct_exigido = Float(IF calc.bioma = "AMAZONIA" THEN 80 ELSE 20)
        /\ RLRow.area_exigida_ha = float64("round", rl.required_ha, 4)

\* zones cover the whole parcel and vegetation is supplied: the one record
\* has an empty geometry
C19_Witness ==
    /\ RLDone
    /\ HasRows(rl.app_gdf) /\ HasRows(rl.vegetacao_nativa_gdf)
    /\ Len(rl.gdf[1].rows) = 1
    /\ is_empty(RLRow.geometry)
    /\ rl.required_m2 # Float(0)

\* the scenario of C20: the 1000 m parcel (100 ha), one watercourse 5 m wide
\* across it, no springs, no lakes, no elevation source
ScenarioInputs ==
    /\ calc.perimeter = Interval(0, 1000)
    /\ Len(RowsOf(app.rivers_gdf)) = 1
    /\ RowsOf(app.rivers_gdf)[1].largura_m = Fin(5)
    /\ \A x \in RowsOf(app.rivers_gdf)[1].geometry : 0 < x[1] /\ x[2] < 1000
    /\ app.nascentes_gdf = None
    /\ app.lagos_gdf = None
    /\ app.dem.outcome = "none"

\* C20: in the scenario the zone engine returns exactly one zone, a river
\* margin of buffer 30 m, and for MATA_ATLANTICA the allocator, given that
\* zone, returns a region of about 20 ha (within 5%) found at a buffer size
\* of the search around the zone, with status PROPOSTA.
C20_Scenario ==
    /\ (app.pc = "done" /\ ScenarioInputs) =>
           /\ Len(RowsOf(app.result)) = 1
           /\ RowsOf(app.result)[1].tip_app = "MARGEM_CURSO_DAGUA"
           /\ RowsOf(app.result)[1].buffer_m = 30
           /\ RowsOf(app.result)[1].num_area > 0
    /\ (RLDone /\ ScenarioInputs /\ calc.bioma = "MATA_ATLANTICA") =>
           /\ rl.app_gdf = app.result
           /\ rl.required_m2 = Float(20 * M2_PER_HA)
           /\ rl.found = "buffer"
           /\ rl.veg_branch = "none"
           /\ RLRow.num_area * 100 >= 20 * M2_PER_HA * 95
           /\ RLRow.num_area * 100 <= 20 * M2_PER_HA * 105
           /\ area(to_utm(RLRow.geometry)) = RLRow.num_area
           /\ ~ Overlap(RLRow.geometry, RowsOf(app.result)[1].geometry)
           /\ RLRow.des_condic = "PROPOSTA"

\* the watercourse through the middle of the parcel, the reserve next to it
C20_Witness ==
    /\ RLDone /\ ScenarioInputs /\ calc.bioma = "MATA_ATLANTICA"
    /\ RowsOf(app.rivers_gdf)[1].geometry = Interval(500, 500)
    /\ RowsOf(app.result)[1].buffer_m = 30
    /\ rl.found = "buffer"
    /\ RLRow.des_condic = "PROPOSTA"
    /\ distance(RLRow.geometry, RowsOf(app.result)[1].geometry) = 0

\* a watercourse record without width: no largura_m column, or no value in it
WidthAbsent(row) == "largura_m" \notin DOMAIN row \/ row.largura_m[1] = "nan"

\* C24: the zone of a watercourse whose width is absent (column missing or
\* value missing) is made with the width 5 m, that is with the 30 m buffer.
C24_AbsentWidthDefault ==
    app.pc # "idle" =>
        \A i \in 1..Len(RowsOf(app.app_margem)) :
            LET zone == RowsOf(app.app_margem)[i]
                row == FeatureRow(app.rivers_gdf, zone.cod_app[2])
            IN  WidthAbsent(row) => zone.buffer_m = 30

\* C25: _extract_area returns its candidate unchanged: the sufficient
\* vegetation, the first sufficient buffer candidate and the available area
\* without zones are selected whole, and a selection that met the
\* requirement has an achieved area >= the required area.
C25_ExtractReturnsWhole ==
    rl.pc \in {"output", "done"} =>
        /\ rl.veg_branch = "sufficient" =>
               rl.rl_geometry = intersection(to_utm(SuppliedVegetation), rl.disponivel)
        /\ rl.found = "buffer" =>
               /\ rl.complemento = Candidate(rl.tested[Len(rl.tested)])
               /\ Reaches(area(rl.complemento), rl.sel_required_m2)
        /\ rl.found = "no_app" => rl.complemento = rl.sel_disponivel
        /\ (rl.veg_branch = "sufficient" \/ rl.found = "buffer") =>
               /\ Reaches(area(rl.rl_geometry), rl.required_m2)
               /\ RLDone => RLRow.num_area >= RLRow.area_exigida_ha

\* a buffer candidate a third larger than the requirement is returned whole
C25_Witness ==
    /\ RLDone /\ rl.found = "buffer"
    /\ rl.required_m2 # Float(0)
    /\ RLRow.num_area * 3 >= RLRow.area_exigida_ha * 4
    /\ rl.rl_geometry = rl.complemento

\* the parcel without the union of the supplied zones, in metric coordinates
Remainder == difference(to_utm(calc.perimeter), to_utm(SuppliedZones))

\* C26: when the parcel without the zones has several parts, the available
\* area is one part of largest area, the vegetation intersection, the search
\* and the fallback stay inside it, and the allocation shares no area with
\* another part.
C26_LargestPartOnly ==
    (rl.pc \notin {"idle", "start", "available"} /\ IsMultiPolygon(Remainder)) =>
        /\ \E x \in LargestParts(Remainder) : rl.disponivel = {x}
        /\ Within(rl.veg_disponivel, rl.disponivel)
        /\ Within(rl.sel_disponivel, rl.disponivel)
        /\ Within(rl.complemento, rl.disponivel)
        /\ Within(rl.rl_geometry, rl.disponivel)
        /\ RLDone =>
             /\ Within(to_utm(RLRow.geometry), rl.disponivel)
             /\ \A y \in Remainder \ rl.disponivel :
                  ~ Overlap(to_utm(RLRow.geometry), {y})

\* two parts of different area, the fallback returns the larger one only
C26_Witness ==
    /\ RLDone
    /\ Cardinality(Remainder) = 2
    /\ Cardinality(LargestParts(Remainder)) = 1
    /\ rl.found = "fallback"
    /\ to_utm(RLRow.geometry) = { x \in Remainder : x \in LargestParts(Remainder) }

\* a record of the consolidated result is a zone as its rule made it, with
\* NaN in the columns that only other rules write
SameZone(record, zone) ==
    /\ DOMAIN zone \subseteq DOMAIN record
    /\ \A a \in DOMAIN zone : record[a] = zone[a]
    /\ \A a \in DOMAIN record \ DOMAIN zone : record[a] = NaN

\* C27: the result of calculate_all_apps is the zones of the river rule,
\* then those of the spring rule, of the lake rule and of the slope rule,
\* each as the rule makes them of its own layer; an absent or empty layer
\* adds nothing.
C27_ConcatenationInOrder ==
    app.pc = "done" =>
        LET zones == RuleZones("margem", app.rivers_gdf)
                     \o RuleZones("nascente", app.nascentes_gdf)
                     \o RuleZones("lago", app.lagos_gdf)
                     \o SlopeZones
        IN  /\ app.result # None
            /\ Len(app.result[1].rows) = Len(zones)
            /\ \A i \in 1..Len(zones) : SameZone(app.result[1].rows[i], zones[i])
            /\ RowsOf(app.app_margem) = RuleZones("margem", app.rivers_gdf)
            /\ RowsOf(app.app_nascente) = RuleZones("nascente", app.nascentes_gdf)
            /\ RowsOf(app.app_lago) = RuleZones("lago", app.lagos_gdf)
            /\ RowsOf(app.app_decliv) = SlopeZones

\* no river layer, an empty lake layer: a spring zone, then a slope zone
C27_Witness ==
    /\ app.pc = "done"
    /\ app.rivers_gdf = None
    /\ app.lagos_gdf # None /\ ~ HasRows(app.lagos_gdf)
    /\ Len(RowsOf(app.result)) = 2
    /\ RowsOf(app.result)[1].tip_app = "NASCENTE"
    /\ RowsOf(app.result)[2].tip_app = "DECLIVIDADE_SUPERIOR_45"

\* the calculator is the same object before and after the step (the
\* pipeline constructs the allocator when it leaves the zone engine)
SameCalculator == ~ (rl.pc = "apps" /\ rl'.pc # "apps")

\* C28: the metric copy of the boundary is projected at most once per
\* calculator, the stored copy is the projection of the geographic boundary,
\* and no step changes the boundary or a stored copy.
C28_CachedProjection ==
    /\ [](/\ calc.projections <= 1
          /\ calc._perimeter_utm = None <=> calc.projections = 0
          /\ calc._perimeter_utm # None =>
                 calc._perimeter_utm = Some(to_utm(calc.perimeter)))
    /\ [][/\ calc'.perimeter = calc.perimeter
          /\ (SameCalculator /\ calc._perimeter_utm # None) =>
                 /\ calc'._perimeter_utm = calc._perimeter_utm
                 /\ calc'.projections = calc.projections]_vars

\* the zone engine used the metric copy for rivers and again for springs,
\* and the allocator used its own copy three times
C28_Witness ==
    /\ RLDone
    /\ HasRows(app.rivers_gdf) /\ HasRows(app.nascentes_gdf)
    /\ HasRows(rl.app_gdf)
    /\ calc.projections = 1
    /\ calc._perimeter_utm = Some(to_utm(calc.perimeter))

\* C29: the achieved area of the record is the area of the geometry of the
\* record, and its status is the one that area earns, also when the selected
\* region has several parts.
C29_RecordDescribesGeometry ==
    RLDone =>
        /\ RLRow.num_area = area(to_utm(RLRow.geometry))
        /\ RLRow.des_condic = "PROPOSTA" <=>
               area(to_utm(RLRow.geometry)) * 100 >= RLRow.area_exigida_ha * 95

\* ------------------------------------------------------------------
\* sicar_formatter/shapefile_builder.py: SICARShapefileBuilder
\* ------------------------------------------------------------------

\* config.DEFAULT_CRS ('EPSG:4326') and config.UTM_CRS_SP ('EPSG:31983')
DEFAULT_CRS == 4326
UTM_CRS_SP == 31983

\* config.SICAR_ATTRIBUTES: per layer key, the mandatory attributes and types
SICAR_ATTRIBUTES ==
    [AREA_IMOVEL |-> [cod_imovel |-> "str", nom_imovel |-> "str",
                      mod_fiscal |-> "float", num_area |-> "float",
                      cod_estado |-> "str", cod_municipio |-> "str"],
     APP |-> [cod_app |-> "str", tip_app |-> "str", des_condic |-> "str",
              num_area |-> "float"],
     RESERVA_LEGAL |-> [cod_rl |-> "str", des_condic |-> "str",
                        num_area |-> "float", ind_averbada |-> "str",
                        num_matricula |-> "str"],
     VEGETACAO_NATIVA |-> [cod_veg |-> "str", des_estagio |-> "str",
                           num_area |-> "float"],
     USO_CONSOLIDADO |-> [cod_uso |-> "str", des_uso |-> "str",
                          num_area |-> "float"],
     USO_RESTRITO |-> [cod_ur |-> "str", des_tipo |-> "str",
                       num_area |-> "float"],
     HIDROGRAFIA |-> [cod_hidro |-> "str", tip_hidro |-> "str",
                      nom_hidro |-> "str", num_largura |-> "float"],
     SERVIDAO_ADMINISTRATIVA |-> [cod_serv |-> "str", tip_serv |-> "str",
                                  num_area |-> "float"]]

\* SICAR_ATTRIBUTES.get(layer_name, {})
SICAR_ATTRIBUTES_get(layer_name) ==
    IF layer_name \in DOMAIN SICAR_ATTRIBUTES
    THEN SICAR_ATTRIBUTES[layer_name] ELSE <<>>

\* the value _ensure_attributes writes into a missing column of type dtype
default_of(dtype) ==
    IF dtype = "str" THEN ""
    ELSE IF dtype = "float" THEN Fin(0)
    ELSE None

\* a GeoDataFrame with its reference system (None when it has none)
Layer(crs, columns, rows) == [crs |-> crs, columns |-> columns, rows |-> rows]

\* Frames are objects: heap is the sequence of the frames that exist, a
\* frame is referred to by its position in it.

\* _ensure_attributes(layer_name, gdf): the heap after the missing columns
\* were written into the frame gdf refers to; the method returns gdf itself
_ensure_attributes(heap, layer_name, gdf) ==
    LET schema == SICAR_ATTRIBUTES_get(layer_name)
        frame == heap[gdf]
        missing == { attr \in DOMAIN schema : attr \notin frame.columns }
    IN  [heap EXCEPT ![gdf] =
            Layer(frame.crs, frame.columns \cup missing,
                  [i \in 1..Len(frame.rows) |->
                      [attr \in frame.columns \cup missing |->
                          IF attr \in missing THEN default_of(schema[attr])
                          ELSE frame.rows[i][attr]]])]

\* add_layer, lines 44-48: set_crs and to_crs make a new frame, a frame in
\* WGS84 stays the object it is; the heap and the reference afterwards
ensure_wgs84(heap, gdf) ==
    LET frame == heap[gdf]
    IN  IF frame.crs = None
        THEN [heap |-> Append(heap, Layer(Some(DEFAULT_CRS), frame.columns, frame.rows)),
              gdf |-> Len(heap) + 1]
        ELSE IF frame.crs[1] # 4326
        THEN [heap |-> Append(heap,
                         Layer(Some(DEFAULT_CRS), frame.columns,
                               [i \in 1..Len(frame.rows) |->
                                   [frame.rows[i] EXCEPT !.geometry = to_wgs84(@)]])),
              gdf |-> Len(heap) + 1]
        ELSE [heap |-> heap, gdf |-> gdf]

\* the builder self after add_layer(name, gdf); gdf is None or a reference
add_layer(self, name, gdf) ==
    IF gdf = None \/ Len(self.heap[gdf[1]].rows) = 0 THEN self
    ELSE LET wgs == ensure_wgs84(self.heap, gdf[1])
         IN  [self EXCEPT
                !.heap = _ensure_attributes(wgs.heap, name, wgs.gdf),
                !.layers = [n \in DOMAIN self.layers \cup {name} |->
                               IF n = name THEN wgs.gdf ELSE self.layers[n]]]

\* self.layers[name]
layer_of(self, name) == self.heap[self.layers[name]]

\* SICARShapefileBuilder.__init__ (self.layers = {}), with the frames that
\* exist and the arguments of the latest add_layer call (given: the frame as
\* it was when handed in)
SICARShapefileBuilder ==
    [pc |-> "ready", layers |-> <<>>, heap |-> <<>>, calls |-> 0,
     name |-> None, gdf |-> None, given |-> None]

\* number of add_layer calls on one builder
MaxCalls == 2

\* layer names: those build_sicar_package uses, and two keys of the schema
LayerNames ==
    {"perimetro", "app", "reserva_legal", "vegetacao_nativa",
     "area_consolidada", "uso_restrito", "hidrografia", "servidao"}
    \cup {"AREA_IMOVEL", "APP"}

\* new frames handed to add_layer
LayerPool ==
    { Layer(Some(DEFAULT_CRS), {"geometry"}, <<>>),
      Layer(None, {"geometry"}, <<[geometry |-> Interval(0, 1000)]>>),
      Layer(Some(DEFAULT_CRS), {"geometry"},
            <<[geometry |-> Interval(0, 1000)]>>),
      Layer(Some(UTM_CRS_SP), {"geometry"},
            <<[geometry |-> to_utm(Interval(0, 1000))]>>),
      Layer(Some(DEFAULT_CRS), {"geometry", "cod_imovel"},
            <<[geometry |-> Interval(0, 1000), cod_imovel |-> "SP-1"]>>),
      Layer(Some(DEFAULT_CRS), {"geometry", "num_area"},
            <<[geometry |-> Interval(0, 250), num_area |-> Fin(25)],
              [geometry |-> Interval(300, 400), num_area |-> Fin(10)]>>) }

\* builder.add_layer(name, gdf) with gdf None, a new frame, or a frame that
\* exists already (one handed in before, or one the builder holds)
AddLayer ==
    /\ shp.pc = "ready"
    /\ shp.calls < MaxCalls
    /\ \E name \in LayerNames :
          LET Call(heap, gdf) ==
                  [add_layer([shp EXCEPT !.heap = heap], name, gdf) EXCEPT
                      !.calls = @ + 1,
                      !.name = Some(name),
                      !.gdf = gdf,
                      !.given = IF gdf = None THEN None ELSE Some(heap[gdf[1]])]
          IN  \/ shp' = Call(shp.heap, None)
              \/ \E frame \in LayerPool :
                    shp' = Call(Append(shp.heap, frame), Some(Len(shp.heap) + 1))
              \/ \E gdf \in 1..Len(shp.heap) :
                    shp' = Call(shp.heap, Some(gdf))
    /\ UNCHANGED <<bw, calc, rl, app, val, dup>>

InitSHP ==
    /\ shp = SICARShapefileBuilder
    /\ bw = Idle /\ calc = Idle /\ rl = Idle /\ app = Idle
    /\ val = Idle /\ dup = Idle
NextSHP == AddLayer
SpecSHP == InitSHP /\ [][NextSHP]_vars

\* the schema of the layer kept under a name: build_sicar_package's names
\* stand for the SICAR layers of config.SICAR_ATTRIBUTES
SchemaKey ==
    [perimetro |-> "AREA_IMOVEL", app |-> "APP",
     reserva_legal |-> "RESERVA_LEGAL", vegetacao_nativa |-> "VEGETACAO_NATIVA",
     area_consolidada |-> "USO_CONSOLIDADO", uso_restrito |-> "USO_RESTRITO",
     hidrografia |-> "HIDROGRAFIA", servidao |-> "SERVIDAO_ADMINISTRATIVA",
     AREA_IMOVEL |-> "AREA_IMOVEL", APP |-> "APP"]
MandatoryAttributes(name) == SICAR_ATTRIBUTES[SchemaKey[name]]

\* C21: after add_layer(name, layer) with a non-empty layer, the stored
\* layer has every mandatory attribute of the layer's schema, a missing one
\* filled with '' or 0.0, and the attributes the layer had are unchanged.
C21_MandatoryAttributes ==
    (shp.pc = "ready" /\ HasRows(shp.given)) =>
        LET name == shp.name[1]
            given == shp.given[1]
            schema == MandatoryAttributes(name)
        IN  /\ name \in DOMAIN shp.layers
            /\ DOMAIN schema \subseteq layer_of(shp, name).columns
            /\ Len(layer_of(shp, name).rows) = Len(given.rows)
            /\ \A i \in 1..Len(given.rows) :
                 /\ \A attr \in DOMAIN schema \ given.columns :
                      layer_of(shp, name).rows[i][attr] = default_of(schema[attr])
                 /\ \A attr \in given.columns \ {"geometry"} :
                      layer_of(shp, name).rows[i][attr] = given.rows[i][attr]

\* ------------------------------------------------------------------
\* geospatial/geometry_validator.py: GeometryValidator
\* ------------------------------------------------------------------

\* config.MIN_PROPERTY_AREA_M2
MIN_PROPERTY_AREA_M2 == 2500

\* _simplify_polygon: the first tolerance 0.00001 and the limit 0.001, in
\* units of 0.00001 degree
TOLERANCE_START == 1
TOLERANCE_LIMIT == 100

\* the tolerances the loop of _simplify_polygon can use below the limit
Tolerances == {1, 2, 4, 8, 16, 32, 64}

\* GeometryValidator.__init__(max_vertices, min_area_m2)
GeometryValidator(max_vertices, min_area_m2) ==
    [max_vertices |-> max_vertices,
     min_area_m2 |-> IF min_area_m2 # None THEN min_area_m2[1]
                     ELSE MIN_PROPERTY_AREA_M2]

\* A geometry as the validator sees it: its type, its validity, its planar
\* area in its own coordinates (geometry.area, in units of 1e-10 square
\* degree), its area in m2 after projection (_calculate_area_m2), the parts of
\* a MultiPolygon, what make_valid returns for it, and, for a Polygon, its
\* exterior ring: `core` coordinates that no tolerance below the limit removes
\* and, per tolerance, `detail` coordinates that simplify removes from that
\* tolerance on.
Geometry(type, is_valid, planar_area, area_m2, core, detail, geoms, made_valid) ==
    [type |-> type, is_valid |-> is_valid, area |-> planar_area,
     area_m2 |-> area_m2, core |-> core, detail |-> detail, geoms |-> geoms,
     made_valid |-> made_valid]

RECURSIVE SumOver(_, _)
SumOver(f, S) ==
    IF S = {} THEN 0
    ELSE LET x == CHOOSE x \in S : TRUE IN f[x] + SumOver(f, S \ {x})

\* len(geometry.exterior.coords), of a Polygon
exterior_coords(geometry) == geometry.core + SumOver(geometry.detail, Tolerances)

\* geometry.simplify(tolerance, preserve_topology=True): a Polygon without
\* the coordinates that deviate by at most the tolerance
simplify(geometry, tolerance) ==
    [geometry EXCEPT !.detail =
        [t \in Tolerances |-> IF t <= tolerance THEN 0 ELSE geometry.detail[t]]]

\* mutant: every geometry passes the type test
is_polygonal_any(geometry) == TRUE

\* isinstance(geometry, (Polygon, MultiPolygon))
is_polygonal(geometry) == geometry.type \in {"Polygon", "MultiPolygon"}

\* max(geometry.geoms, key=lambda p: p.area): the first part of largest
\* planar area
largest_polygon(geometry) ==
    LET n == Len(geometry.geoms)
        i == CHOOSE i \in 1..n :
                /\ \A j \in 1..n : geometry.geoms[j].area <= geometry.geoms[i].area
                /\ \A j \in 1..(i - 1) : geometry.geoms[j].area < geometry.geoms[i].area
    IN  geometry.geoms[i]

\* make_valid(geometry), reduced to its largest part when it is a MultiPolygon
make_valid_largest(geometry) ==
    LET made == geometry.made_valid[1]
    IN  IF made.type = "MultiPolygon" THEN largest_polygon(made) ELSE made

\* the locals of validate(geometry) at its first statement
ValidateLocals(validator, geometry) ==
    [pc |-> "type", validator |-> validator, input |-> geometry,
     geometry |-> geometry, errors |-> <<>>, n_vertices |-> None,
     tolerance |-> TOLERANCE_START, iterations |-> 0,
     raised |-> None, result |-> None]

\* line 46: the type test
CheckType ==
    /\ val.pc = "type"
    /\ val' = IF ~ is_polygonal(val.geometry)
              THEN [val EXCEPT !.pc = "raised", !.raised = Some("TypeError")]
              ELSE [val EXCEPT !.pc = "multi"]
    /\ UNCHANGED <<bw, calc, rl, app, shp, dup>>

\* lines 53-55: a MultiPolygon is replaced by its largest polygon
LargestOfMulti ==
    /\ val.pc = "multi"
    /\ val' = IF val.geometry.type = "MultiPolygon"
              THEN [val EXCEPT !.pc = "repair",
                               !.geometry = largest_polygon(val.geometry),
                               !.errors = Append(@, <<"MultiPolygon convertido para o maior poligono">>)]
              ELSE [val EXCEPT !.pc = "repair"]
    /\ UNCHANGED <<bw, calc, rl, app, shp, dup>>

\* lines 58-64: repair of an invalid geometry
Repair ==
    /\ val.pc = "repair"
    /\ val' = IF ~ val.geometry.is_valid
              THEN [val EXCEPT !.pc = "area",
                               !.geometry = make_valid_largest(val.geometry),
                               !.errors = Append(@, <<"Auto-intersecao detectada e corrigida">>)]
              ELSE [val EXCEPT !.pc = "area"]
    /\ UNCHANGED <<bw, calc, rl, app, shp, dup>>

\* lines 67-71: the minimum area
CheckArea ==
    /\ val.pc = "area"
    /\ val' = IF val.geometry.area_m2 < val.validator.min_area_m2
              THEN [val EXCEPT !.pc = "vertices",
                               !.errors = Append(@, <<"Area abaixo do minimo legal",
                                                      val.geometry.area_m2,
                                                      val.validator.min_area_m2>>)]
              ELSE [val EXCEPT !.pc = "vertices"]
    /\ UNCHANGED <<bw, calc, rl, app, shp, dup>>

\* lines 74-76: the vertex count, and the call of _simplify_polygon; a
\* geometry that is no Polygon has no exterior and the access raises
CountVertices ==
    /\ val.pc = "vertices"
    /\ val' = IF val.geometry.type # "Polygon"
              THEN [val EXCEPT !.pc = "raised",
                               !.raised = Some("AttributeError")]
              ELSE LET n_vertices == exterior_coords(val.geometry)
                   IN  IF n_vertices > val.validator.max_vertices
                       THEN [val EXCEPT !.pc = "simplify",
                                        !.n_vertices = Some(n_vertices),
                                        !.tolerance = TOLERANCE_START]
                       ELSE [val EXCEPT !.pc = "final",
                                        !.n_vertices = Some(n_vertices)]
    /\ UNCHANGED <<bw, calc, rl, app, shp, dup>>

\* the condition of the while loop of _simplify_polygon
simplify_continues(v) ==
    /\ exterior_coords(v.geometry) > v.validator.max_vertices
    /\ v.tolerance < TOLERANCE_LIMIT

\* lines 101-105: one pass of the loop
SimplifyPass ==
    /\ val.pc = "simplify"
    /\ simplify_continues(val)
    /\ LET simplified == simplify(val.geometry, val.tolerance)
       IN  val' = [val EXCEPT
                     !.geometry = IF simplified.type = "Polygon"
                                  THEN simplified ELSE @,
                     !.tolerance = @ * 2,
                     !.iterations = @ + 1]
    /\ UNCHANGED <<bw, calc, rl, app, shp, dup>>

\* line 107 and lines 77-80: the loop ends, the warning is appended
SimplifyReturn ==
    /\ val.pc = "simplify"
    /\ ~ simplify_continues(val)
    /\ val' = [val EXCEPT
                 !.pc = "final",
                 !.errors = Append(@, <<"Poligono simplificado",
                                        val.n_vertices[1],
                                        exterior_coords(val.geometry)>>)]
    /\ UNCHANGED <<bw, calc, rl, app, shp, dup>>

\* lines 83-88: the last validity test and the return
FinalReturn ==
    /\ val.pc = "final"
    /\ LET geometry == IF ~ val.geometry.is_valid
                       THEN make_valid_largest(val.geometry)
                       ELSE val.geometry
       IN  val' = [val EXCEPT !.pc = "done",
                              !.geometry = geometry,
                              !.result = Some(<<geometry, val.errors>>)]
    /\ UNCHANGED <<bw, calc, rl, app, shp, dup>>

\* exterior rings: the coordinates removed at the tolerances 1, 2, 4, ..., 64
Detail(counts) ==
    [t \in Tolerances |-> counts[CHOOSE k \in 1..7 : 2 ^ (k - 1) = t]]

\* a valid polygon
ValidPolygon(planar_area, area_m2, core, counts) ==
    Geometry("Polygon", TRUE, planar_area, area_m2, core, Detail(counts), <<>>, None)

\* valid polygons: the square of 0.01 degree and the plot of 0.00001 degree
\* at 23.2 degrees south, the circle of 1500 points of radius 0.01 degree
\* around the same place (simplify leaves 129, 65, 65, 33, 33, 17 and 17
\* coordinates at the seven tolerances), a star of 1500 points that lie
\* farther apart than every tolerance, and three boundaries with fine and
\* coarse detail
Square == ValidPolygon(1000000, 1133775, 5, <<0, 0, 0, 0, 0, 0, 0>>)
SmallPlot == ValidPolygon(1, 1, 5, <<0, 0, 0, 0, 0, 0, 0>>)
Circle == ValidPolygon(3141583, 3561996, 17, <<1372, 64, 0, 32, 0, 16, 0>>)
Star == ValidPolygon(70720, 80000, 1501, <<0, 0, 0, 0, 0, 0, 0>>)

\* a geometry of another type: a point, a line, a collection
Other(type, planar_area, area_m2) ==
    Geometry(type, TRUE, planar_area, area_m2, 0,
             Detail(<<0, 0, 0, 0, 0, 0, 0>>), <<>>, None)

\* a MultiPolygon of the given polygons
MultiPolygonOf(geoms) ==
    [Other("MultiPolygon", 0, 0) EXCEPT !.geoms = geoms]

\* invalid polygons with the geometry make_valid returns for them
Invalid(made_valid) ==
    Geometry("Polygon", FALSE, made_valid.area, made_valid.area_m2,
             made_valid.core, made_valid.detail, <<>>, Some(made_valid))

\* geometries handed to validate: polygons; multi-polygons, among them the
\* square and parts of 0.010005 x 0.01 and 0.01 x 0.01 degree at 24 degrees
\* south, whose planar and projected areas are ordered differently; invalid
\* polygons that make_valid turns into a polygon, a multi-polygon, a
\* collection or a line; a point and a line
ValInputs ==
    { Square, SmallPlot, Circle, Star,
      ValidPolygon(44200, 50000, 5, <<300, 0, 0, 0, 0, 0, 1196>>),
      ValidPolygon(53040, 60000, 700, <<0, 0, 0, 500, 0, 0, 301>>),
      ValidPolygon(35360, 40000, 12, <<0, 0, 0, 3, 0, 0, 0>>) }
    \cup { MultiPolygonOf(<<a, b>>) :
             a, b \in { Square, SmallPlot, Circle, Star,
                        ValidPolygon(1000500, 1127584, 7, <<0, 0, 0, 0, 0, 0, 0>>),
                        ValidPolygon(1000000, 1127021, 9, <<0, 0, 0, 0, 0, 0, 0>>) } }
    \cup { Invalid(q) : q \in {Square, Circle, Star} }
    \cup { Invalid(MultiPolygonOf(<<Square, SmallPlot>>)),
           Invalid(MultiPolygonOf(<<SmallPlot, Circle>>)),
           Invalid(Other("GeometryCollection", 8840, 10000)),
           Invalid(Other("LineString", 0, 0)) }
    \cup { Other("Point", 0, 0), Other("LineString", 0, 0) }

\* the validators are the default one and one with small limits
InitVAL ==
    /\ \E validator \in { GeometryValidator(1000, None),
                            GeometryValidator(10, Some(1000)) },
          geometry \in ValInputs :
          val = ValidateLocals(validator, geometry)
    /\ bw = Idle /\ calc = Idle /\ rl = Idle /\ app = Idle
    /\ shp = Idle /\ dup = Idle
NextVAL ==
    \/ CheckType \/ LargestOfMulti \/ Repair \/ CheckArea \/ CountVertices
    \/ SimplifyPass \/ SimplifyReturn \/ FinalReturn
SpecVAL == InitVAL /\ [][NextVAL]_vars

\* C22: validate of a geometry that is neither a Polygon nor a MultiPolygon
\* raises TypeError at the type test: no other step runs, no warning is
\* recorded and nothing is returned; TypeError is raised in no other case.
C22_TypeError ==
    val.pc # "idle" =>
        /\ ~ (val.input.type \in {"Polygon", "MultiPolygon"}) =>
              /\ val.pc \in {"type", "raised"}
              /\ val.geometry = val.input
              /\ val.errors = <<>>
              /\ val.n_vertices = None
              /\ val.result = None
              /\ val.pc = "raised" => val.raised = Some("TypeError")
        /\ val.raised = Some("TypeError") =>
              /\ val.pc = "raised"
              /\ val.input.type \in {"Point", "LineString"}
        /\ val.pc = "raised" => val.raised # None /\ val.result = None
        /\ val.pc # "raised" => val.raised = None

\* a line was handed in and the type error was raised
C22_Witness ==
    /\ val.pc = "raised"
    /\ val.input.type = "LineString"
    /\ val.raised = Some("TypeError")

\* the warning list holds a simplification warning
HasSimplifyWarning(errors) ==
    \E i \in 1..Len(errors) : errors[i][1] = "Poligono simplificado"

\* C23: when the exterior of the polygon has more than max_vertices
\* coordinates, validate returns a polygon with at most max_vertices
\* coordinates and a simplification warning.
C23_VertexBound ==
    (val.pc = "done" /\ val.n_vertices[1] > val.validator.max_vertices) =>
        /\ exterior_coords(val.result[1][1]) <= val.validator.max_vertices
        /\ HasSimplifyWarning(val.result[1][2])

\* ------------------------------------------------------------------
\* data_sources/hydrology.py: NascenteIdentifier._remove_nearby_duplicates
\* ------------------------------------------------------------------

\* mutant: a point at exactly the tolerance is dropped as well
too_close_leq(dist, tolerance_m) == dist <= tolerance_m

\* line 503: dist < tolerance_m
too_close(dist, tolerance_m) == dist < tolerance_m

\* points[keep].reset_index(drop=True)
RECURSIVE boolean_mask(_, _)
boolean_mask(points, keep) ==
    IF Len(points) = 0 THEN <<>>
    ELSE (IF Head(keep) THEN <<Head(points)>> ELSE <<>>)
         \o boolean_mask(Tail(points), Tail(keep))

\* the locals of _remove_nearby_duplicates(points, tolerance_m) on entry
DupLocals(points, tolerance_m) ==
    [pc |-> "start", points |-> points, tolerance_m |-> tolerance_m,
     points_utm |-> <<>>, keep |-> <<>>, i |-> 1, j |-> 1, result |-> None]

\* lines 488-492: the empty frame is returned as it is; otherwise the points
\* are projected (points.to_crs(UTM_CRS_SP)) and all marked as kept
DupStart ==
    /\ dup.pc = "start"
    /\ dup' = IF Len(dup.points) = 0
              THEN [dup EXCEPT !.pc = "done", !.result = Some(dup.points)]
              ELSE [dup EXCEPT !.pc = "outer",
                               !.points_utm =
                                   [k \in 1..Len(dup.points) |->
                                       to_utm(dup.points[k].geometry)],
                               !.keep = [k \in 1..Len(dup.points) |-> TRUE],
                               !.i = 1]
    /\ UNCHANGED <<bw, calc, rl, app, shp, val>>

\* lines 494-496 and 506: one step of the loop over i, or the return
DupOuter ==
    /\ dup.pc = "outer"
    /\ dup' = IF dup.i > Len(dup.points_utm)
              THEN [dup EXCEPT !.pc = "done",
                               !.result = Some(boolean_mask(dup.points, dup.keep))]
              ELSE IF ~ dup.keep[dup.i]
              THEN [dup EXCEPT !.i = @ + 1]
              ELSE [dup EXCEPT !.pc = "inner", !.j = dup.i + 1]
    /\ UNCHANGED <<bw, calc, rl, app, shp, val>>

\* lines 497-504: one step of the loop over j
DupInner ==
    /\ dup.pc = "inner"
    /\ dup' = IF dup.j > Len(dup.points_utm)
              THEN [dup EXCEPT !.pc = "outer", !.i = @ + 1]
              ELSE IF ~ dup.keep[dup.j]
              THEN [dup EXCEPT !.j = @ + 1]
              ELSE LET dist == distance(dup.points_utm[dup.i],
                                        dup.points_utm[dup.j])
                   IN  [dup EXCEPT
                          !.keep[dup.j] = ~ too_close(dist, dup.tolerance_m),
                          !.j = @ + 1]
    /\ UNCHANGED <<bw, calc, rl, app, shp, val>>

\* number of points in the frame
MaxPoints == 3

\* positions of spring points along the strip, in metres
PointPositions == {0, 30, 49, 50, 60, 100}

\* a point as identify_from_rivers records it (lines 465-468)
NascentePoint(x) == [geometry |-> Interval(x, x), tipo |-> "NASCENTE_IDENTIFICADA"]

\* frames of points handed to _remove_nearby_duplicates
PointFrames ==
    UNION { [1..n -> { NascentePoint(x) : x \in PointPositions }] : n \in 0..MaxPoints }

InitDUP ==
    \* the tolerance identify_from_rivers uses (line 473), and a smaller one
    /\ \E points \in PointFrames, tolerance_m \in {50, 30} :
          dup = DupLocals(points, tolerance_m)
    /\ bw = Idle /\ calc = Idle /\ rl = Idle /\ app = Idle
    /\ shp = Idle /\ val = Idle
NextDUP == DupStart \/ DupOuter \/ DupInner
SpecDUP == InitDUP /\ [][NextDUP]_vars

\* the indices of the points that were retained
Retained == { k \in 1..Len(dup.keep) : dup.keep[k] }

\* the distance between the points a and b of the input frame
PointDistance(a, b) == distance(dup.points[a].geometry, dup.points[b].geometry)

\* C30: after _remove_nearby_duplicates no two retained points are closer
\* than the tolerance, every dropped point is closer than the tolerance to a
\* retained point before it, the first point is retained, and the result is
\* the retained points in input order.
C30_Deduplicated ==
    dup.pc = "done" =>
        /\ Len(dup.points) = 0 => dup.result = Some(dup.points)
        /\ Len(dup.points) > 0 =>
             /\ 1 \in Retained
             /\ \A a, b \in Retained :
                  a < b => PointDistance(a, b) >= dup.tolerance_m
             /\ \A b \in (1..Len(dup.points)) \ Retained :
                  \E a \in Retained :
                     a < b /\ PointDistance(a, b) < dup.tolerance_m
             /\ Len(dup.result[1]) = Cardinality(Retained)
             /\ \A k \in 1..Len(dup.result[1]) :
                  dup.result[1][k] =
                     dup.points[CHOOSE a \in Retained :
                                   Cardinality({ b \in Retained : b <= a }) = k]

\* a point is retained although it is closer than the tolerance to a dropped
\* point before it
C30_Witness ==
    /\ dup.pc = "done"
    /\ \E b \in (1..Len(dup.points)) \ Retained, c \in Retained :
          b < c /\ PointDistance(b, c) < dup.tolerance_m

====
